---- MODULE Spec2Model ----
(***************************************************************************)
(* Model of the movie dashboard (src/main.py): the daily snapshot tables   *)
(* trailer_daily and x_daily, the metric adapters, the 24 h deltas, the    *)
(* alert rules, the catalog window filter and the run of main().           *)
(*                                                                         *)
(* Python values: an optional value (None or a value) is the empty or the  *)
(* one-element sequence; a calendar date is its day ordinal; the ISO date  *)
(* string of a date is the tagged record isoformat(d).                     *)
(***************************************************************************)
EXTENDS Integers, Sequences, FiniteSets, Bags, TLC

VARIABLES
    clock,            \* the calendar date date.today() returns now (day ordinal)
    YOUTUBE_API_KEY,  \* main.py:85, optional credential (None or a key)
    X_BEARER_TOKEN,   \* main.py:86, optional credential (None or a token)
    INCAA_HIST_CSV,   \* the module global main() reads at main.py:946
    trailer_daily,    \* table trailer_daily: a bag of rows
    x_daily,          \* table x_daily: a bag of rows
    conn,             \* "open" | "closed": the sqlite connection of the process
    pc,               \* position of the process in main()
    runs,             \* number of processes started so far
    movies,           \* main(): the list load_catalog returned
    cat_today,        \* load_catalog(): its local today (main.py:408)
    today,            \* main(): today (main.py:952)
    today_str,        \* main(): today_str (main.py:953), None before it is set
    i,                \* main(): index of the movie the loop is at (1-based)
    stats,            \* main(): stats of the current movie
    platform,         \* main(): platform of the current movie
    y,                \* main(): y, the row get_trailer_yesterday returned
    xm,               \* main(): xm of the current movie
    xy,               \* main(): xy, the row get_x_yesterday returned
    change,           \* main(): the five *_change locals of the current movie
    enriched,         \* main(): the list of report rows
    pages,            \* main(): upcoming / released / counts, None before they are built
    published,        \* the pages published by this process, in order
    email_sent,       \* whether send_link_email has delivered in this process
    download,         \* what the catalog download gave this process, None before it
    call,             \* what the adapters of the current movie met
    calls,            \* per movie of this run: what its adapters met
    ref,              \* the dates get_*_yesterday looked up for the current movie
    start,            \* the two tables as they were when the process started
    last_trailer,     \* per primary key of trailer_daily: the row of its latest upsert
    last_x,           \* per primary key of x_daily: the row of its latest upsert
    txn,              \* the statement the connection has executed and not committed
    schema,           \* per table: None when the file has no such table, else its columns
    gh,               \* the requests of the latest upsert_file call and how it ended
    ultra             \* main(): ultra_items and ultra_err, and the answers they came from

vars == << clock, YOUTUBE_API_KEY, X_BEARER_TOKEN, INCAA_HIST_CSV, trailer_daily,
           x_daily, conn, pc, runs, movies, cat_today, today, today_str, i, stats,
           platform, y, xm, xy, change, enriched, pages, published, email_sent,
           download, call, calls, ref, start, last_trailer, last_x, txn, schema,
           gh, ultra >>

-----------------------------------------------------------------------------
(* Bounds of the model *)

MaxDay == 1           \* the clock runs over the days 0 .. MaxDay
MaxRuns == 2          \* processes started in one behaviour
MaxCatalogRows == 2   \* rows of a downloaded catalog

-----------------------------------------------------------------------------
(* Program constants *)

PAST_DAYS == 30
FUTURE_DAYS == 30
ALERT_VIEWS_CHANGE_24H == 2000
ALERT_LIKES_CHANGE_24H == 150
ALERT_COMMENTS_CHANGE_24H == 50
ALERT_X_POSTS_CHANGE_24H == 30
ALERT_X_ENG_CHANGE_24H == 150

-----------------------------------------------------------------------------
(* Python values *)

None == << >>
Some(v) == << v >>
Get(o) == o[1]

\* A str and a dict (or list) as sqlite3 sees them when binding a parameter.
PyStr(s) == [type |-> "str", val |-> s]
PyDict(s) == [type |-> "dict", val |-> s]

\* Python truthiness of an optional value: None and "" are falsy.
Truthy(o) == o # None /\ Get(o) # PyStr("")

\* date.isoformat(): the string stored in the date column.
isoformat(d) == [iso |-> d]

\* sqlite3 binds None, int and str; a dict or list raises ProgrammingError.
Bindable(o) == o = None \/ Get(o).type = "str"

-----------------------------------------------------------------------------
(* Titles and trailer URLs *)

\* A title is a sequence of characters; "a_acute" and "A_acute" stand for the
\* letter a with an acute accent, small and capital.
\* The accented letters main.py:249 names.
AccentedBasic == {"a_acute", "e_acute", "i_acute", "o_acute", "u_acute", "n_tilde", "u_diaeresis"}

\* lower() of one character.
lower(c) ==
    CASE c = "A" -> "a"
      [] c = "B" -> "b"
      [] c = "A_acute" -> "a_acute"
      [] OTHER -> c

IsSpace(c) == c = " "

\* \w of a Python 3 str pattern: letters (accented ones too), digits, underscore.
IsWord(c) == c \in {"a", "b", "a_acute", "A", "B", "A_acute", "1", "_"}

RECURSIVE MapLower(_)
MapLower(s) == IF s = << >> THEN << >> ELSE << lower(Head(s)) >> \o MapLower(Tail(s))

RECURSIVE LStrip(_)
LStrip(s) == IF s # << >> /\ IsSpace(Head(s)) THEN LStrip(Tail(s)) ELSE s

RECURSIVE RStrip(_)
RStrip(s) ==
    IF s # << >> /\ IsSpace(s[Len(s)]) THEN RStrip(SubSeq(s, 1, Len(s) - 1)) ELSE s

\* str.strip()
strip(s) == RStrip(LStrip(s))

\* re.sub(r"\s+", " ", t)
RECURSIVE CollapseSpaces(_)
CollapseSpaces(s) ==
    IF s = << >> THEN << >>
    ELSE IF IsSpace(Head(s))
         THEN << " " >> \o CollapseSpaces(LStrip(Tail(s)))
         ELSE << Head(s) >> \o CollapseSpaces(Tail(s))

\* re.sub(r"[^\w\s<accented>]", "", t), main.py:249
RECURSIVE DropPunctuation(_)
DropPunctuation(s) ==
    IF s = << >> THEN << >>
    ELSE IF IsWord(Head(s)) \/ IsSpace(Head(s)) \/ Head(s) \in AccentedBasic
         THEN << Head(s) >> \o DropPunctuation(Tail(s))
         ELSE DropPunctuation(Tail(s))

norm_title_key(title) == DropPunctuation(CollapseSpaces(MapLower(strip(title))))

\* The trailer URLs of the model.
YT_URL == "https://youtu.be/abc"
YT_NOID == "https://www.youtube.com/channel/x"
VM_URL == "https://vimeo.com/123"
VM_NOID == "https://vimeo.com/channels/staff"
LINK_URL == "https://example.com/t.mp4"

\* "youtube.com" in u or "youtu.be" in u, over the URLs of the model.
is_youtube(url) == url \in {YT_URL, YT_NOID}

\* "vimeo.com" in u
is_vimeo(url) == url \in {VM_URL, VM_NOID}

youtube_video_id(url) == IF url = YT_URL THEN Some("abc") ELSE None

vimeo_id(url) == IF url = VM_URL THEN Some("123") ELSE None

-----------------------------------------------------------------------------
(* load_catalog *)

\* Mutant of InWindow: the far end of the window is left out.
InWindowExclusive(d, t) == (t - PAST_DAYS) <= d /\ d < (t + FUTURE_DAYS)

\* Mutant of InWindow: the window has no far end.
InWindowNoFarEnd(d, t) == (t - PAST_DAYS) <= d

\* The window test of one row (main.py:422).
InWindow(d, t) == (t - PAST_DAYS) <= d /\ d <= (t + FUTURE_DAYS)

Movie(r, k) ==
    [title |-> strip(r.title), title_key |-> k, release_date |-> Get(r.date),
     release_date_str |-> isoformat(Get(r.date)), trailer_url |-> r.trailer_url]

\* Mutant of CatalogLoop: the test "k in seen" is forgotten.
RECURSIVE CatalogLoopNoSeen(_, _, _, _)
CatalogLoopNoSeen(rows, t, acc, seen) ==
    IF rows = << >> THEN acc
    ELSE LET r == Head(rows)
             title == strip(r.title)
             k == norm_title_key(title)
         IN  IF title = << >> \/ r.date = None
             THEN CatalogLoopNoSeen(Tail(rows), t, acc, seen)
             ELSE IF ~InWindow(Get(r.date), t)
             THEN CatalogLoopNoSeen(Tail(rows), t, acc, seen)
             ELSE CatalogLoopNoSeen(Tail(rows), t, Append(acc, Movie(r, k)), seen \cup {k})

\* The loop over all_rows (main.py:415-436): acc is movies, seen the keys added.
RECURSIVE CatalogLoop(_, _, _, _)
CatalogLoop(rows, t, acc, seen) ==
    IF rows = << >> THEN acc
    ELSE LET r == Head(rows)
             title == strip(r.title)
             k == norm_title_key(title)
         IN  IF title = << >> \/ r.date = None
             THEN CatalogLoop(Tail(rows), t, acc, seen)
             ELSE IF ~InWindow(Get(r.date), t)
             THEN CatalogLoop(Tail(rows), t, acc, seen)
             ELSE IF k \in seen
             THEN CatalogLoop(Tail(rows), t, acc, seen)
             ELSE CatalogLoop(Tail(rows), t, Append(acc, Movie(r, k)), seen \cup {k})

\* list.sort(key=release_date): a stable sort, by insertion.
RECURSIVE InsertByDate(_, _)
InsertByDate(m, s) ==
    IF s = << >> THEN << m >>
    ELSE IF s[Len(s)].release_date <= m.release_date THEN Append(s, m)
         ELSE Append(InsertByDate(m, SubSeq(s, 1, Len(s) - 1)), s[Len(s)])

RECURSIVE SortByDate(_)
SortByDate(s) ==
    IF s = << >> THEN << >>
    ELSE InsertByDate(s[Len(s)], SortByDate(SubSeq(s, 1, Len(s) - 1)))

\* What load_catalog returns for the rows read, run on day t.
load_catalog(rows, t) == SortByDate(CatalogLoop(rows, t, << >>, {}))

\* Mutant of CatalogFails: the test for the date column is forgotten.
CatalogFailsNoDateTest(dl) ==
    \/ dl.kind = "raise"
    \/ dl.rows = << >>
    \/ ~dl.has_header
    \/ ~dl.title_col
    \/ ~dl.trailer_col

\* The download of the catalog: it raises, or gives the rows and the columns found.
\* load_catalog raises when there is no row, no header or no title / date / trailer column.
CatalogFails(dl) ==
    \/ dl.kind = "raise"
    \/ dl.rows = << >>
    \/ ~dl.has_header
    \/ ~dl.title_col
    \/ ~dl.date_col
    \/ ~dl.trailer_col

-----------------------------------------------------------------------------
(* Metric adapters.  resp is what the network gave the one request an adapter  *)
(* makes; an adapter that returns before its request does not read resp.       *)

TrailerStats(v, l, c, e) == [views |-> v, likes |-> l, comments |-> c, err |-> e]
XStats(p, e7, e) == [posts_7d |-> p, eng_7d |-> e7, err |-> e]

NoStats == TrailerStats(None, None, None, None)
NoXStats == XStats(None, None, None)

\* to_int_any of a counter the API gives as a string of digits (or leaves out).
to_int_any(x) == IF x = None THEN None ELSE Some(Get(x))

\* youtube_stats(url), main.py:483-507.
\*   resp.kind = "raise": requests.get or r.json() raised;
\*   resp.kind = "no_items": a JSON body without items (an error body, an unknown id);
\*   resp.kind = "bad_item": items[0] is no mapping;
\*   resp.kind = "item": items[0], with resp.statistics (None when the key is missing).
youtube_stats(url, resp) ==
    IF url = "" \/ ~is_youtube(url) \/ YOUTUBE_API_KEY = None THEN NoStats
    ELSE IF youtube_video_id(url) = None
    THEN TrailerStats(None, None, None, Some(PyStr("no_video_id")))
    ELSE CASE resp.kind = "raise" -> TrailerStats(None, None, None, Some(PyStr("exception")))
           [] resp.kind = "bad_item" -> TrailerStats(None, None, None, Some(PyStr("exception")))
           [] resp.kind = "no_items" -> TrailerStats(None, None, None, Some(PyStr("not_found")))
           [] OTHER ->
                IF resp.statistics = None THEN NoStats
                ELSE LET st == Get(resp.statistics)
                     IN  TrailerStats(to_int_any(st.viewCount), to_int_any(st.likeCount),
                                      to_int_any(st.commentCount), None)

\* vimeo_stats(url), main.py:510-532.
\*   resp.kind = "raise": requests.get raised;
\*   resp.kind = "page": the text of the answer, whatever its HTTP status, with the
\*   counts the two regular expressions find in it (None when they find none).
vimeo_stats(url, resp) ==
    IF url = "" \/ ~is_vimeo(url) \/ vimeo_id(url) = None THEN NoStats
    ELSE IF resp.kind = "raise"
    THEN TrailerStats(None, None, None, Some(PyStr("exception")))
    ELSE TrailerStats(None, resp.likes, resp.comments, None)

RECURSIVE SumEngagement(_)
SumEngagement(tweets) ==
    IF tweets = << >> THEN 0
    ELSE LET pm == Head(tweets)
         IN  pm.like_count + pm.reply_count + pm.retweet_count + pm.quote_count
             + SumEngagement(Tail(tweets))

\* x_metrics(title), main.py:538-569.
\*   resp.kind = "raise": requests.get or r.json() raised, or data["data"] is no list of mappings;
\*   resp.kind = "no_data": a JSON object without "data", with its error, title, detail;
\*   resp.kind = "data": the tweets.
x_metrics(title, resp) ==
    IF X_BEARER_TOKEN = None THEN NoXStats
    ELSE CASE resp.kind = "raise" -> XStats(None, None, Some(PyStr("exception")))
           [] resp.kind = "no_data" ->
                XStats(None, None,
                       IF Truthy(resp.error) THEN resp.error
                       ELSE IF Truthy(resp.title) THEN resp.title
                       ELSE IF Truthy(resp.detail) THEN resp.detail
                       ELSE Some(PyStr("str(data)")))
           [] OTHER -> XStats(Some(Len(resp.tweets)), Some(SumEngagement(resp.tweets)), None)

\* The trailer branch of the loop body, main.py:960-971: (stats, platform).
TrailerBranch(url, resp) ==
    IF is_youtube(url) THEN << youtube_stats(url, resp), "YouTube" >>
    ELSE IF is_vimeo(url) THEN << vimeo_stats(url, resp), "Vimeo" >>
    ELSE IF url # "" THEN << NoStats, "Link" >>
    ELSE << NoStats, "--" >>   \* the dash main.py:971 shows for no trailer

\* platform.lower()
PlatformLower(p) ==
    CASE p = "YouTube" -> "youtube"
      [] p = "Vimeo" -> "vimeo"
      [] p = "Link" -> "link"
      [] OTHER -> p

-----------------------------------------------------------------------------
(* The snapshot tables.  A table is a bag of rows: INSERT OR REPLACE deletes   *)
(* the rows that conflict with the new row on the primary key, then inserts.   *)

TrailerKey(r) == << r.date, r.title_key, r.trailer_url >>
XKey(r) == << r.date, r.title_key >>

\* The rows of bag t that satisfy Keep(_), with their counts.
Restrict(t, Keep(_)) == [r \in {q \in DOMAIN t : Keep(q)} |-> t[r]]

\* Mutant of InsertOrReplaceTrailer: a plain INSERT into a table without its key.
InsertTrailerPlain(t, row) == t (+) SetToBag({row})

InsertOrReplaceTrailer(t, row) ==
    LET NoConflict(q) == TrailerKey(q) # TrailerKey(row)
    IN  Restrict(t, NoConflict) (+) SetToBag({row})

InsertOrReplaceX(t, row) ==
    LET NoConflict(q) == XKey(q) # XKey(row)
    IN  Restrict(t, NoConflict) (+) SetToBag({row})

TrailerRow(d, k, url, p, v, l, c, e) ==
    [date |-> d, title_key |-> k, trailer_url |-> url, platform |-> p,
     views |-> v, likes |-> l, comments |-> c, err |-> e]

XRow(d, k, title, p, e7, e) ==
    [date |-> d, title_key |-> k, title |-> title, posts_7d |-> p, eng_7d |-> e7, err |-> e]

\* upsert_trailer_daily, main.py:683-689: the table after the committed statement.
upsert_trailer_daily(d, k, url, p, v, l, c, e) ==
    InsertOrReplaceTrailer(trailer_daily, TrailerRow(d, k, url, p, v, l, c, e))

\* upsert_x_daily, main.py:704-710
upsert_x_daily(d, k, title, p, e7, e) ==
    InsertOrReplaceX(x_daily, XRow(d, k, title, p, e7, e))

\* The record of the latest upsert per primary key: f with key mapped to row.
Latest(f, key, row) == [k \in DOMAIN f \cup { key } |-> IF k = key THEN row ELSE f[k]]

\* get_trailer_yesterday, main.py:692-701: the rows the SELECT matches on day
\* date.today() - 1; fetchone() gives one of them, or None.
\* Mutant of TrailerYesterdayRows: the lookup leaves the trailer URL out.
TrailerYesterdayRowsAnyUrl(k, url) ==
    {r \in DOMAIN trailer_daily : r.date = isoformat(clock - 1) /\ r.title_key = k}

TrailerYesterdayRows(k, url) ==
    {r \in DOMAIN trailer_daily :
        r.date = isoformat(clock - 1) /\ r.title_key = k /\ r.trailer_url = url}

\* get_x_yesterday, main.py:713-722
XYesterdayRows(k) ==
    {r \in DOMAIN x_daily : r.date = isoformat(clock - 1) /\ r.title_key = k}

-----------------------------------------------------------------------------
(* The 24 h deltas and the alert rules of the loop body *)

\* Mutant of Delta: a missing previous-day value counts as 0.
DeltaMissingAsZero(now, row, f) ==
    IF row = None \/ now = None THEN None
    ELSE IF Get(row)[f] = None THEN Some(Get(now))
    ELSE Some(Get(now) - Get(Get(row)[f]))

\* main.py:985-992 and 999-1004: one *_change local.  now is today's value,
\* row the previous-day row (None when there is none), f the column.
Delta(now, row, f) ==
    IF row = None THEN None
    ELSE IF now # None /\ Get(row)[f] # None THEN Some(Get(now) - Get(Get(row)[f]))
    ELSE None

NoChange == [views |-> None, likes |-> None, comments |-> None,
             x_posts |-> None, x_eng |-> None]

\* What get_trailer_yesterday / get_x_yesterday return of the row fetchone() gave.
TrailerYDict(row) ==
    IF row = None THEN None
    ELSE Some([views |-> Get(row).views, likes |-> Get(row).likes,
               comments |-> Get(row).comments])

XYDict(row) ==
    IF row = None THEN None
    ELSE Some([posts_7d |-> Get(row).posts_7d, eng_7d |-> Get(row).eng_7d])

\* main.py:985-992: the three trailer deltas, of stats st and y
TrailerChange(st, yd) ==
    [NoChange EXCEPT !.views = Delta(st.views, yd, "views"),
                     !.likes = Delta(st.likes, yd, "likes"),
                     !.comments = Delta(st.comments, yd, "comments")]

\* main.py:999-1004: the two X deltas, of xm x and xy, added to the deltas ch
XChange(ch, x, xd) ==
    [ch EXCEPT !.x_posts = Delta(x.posts_7d, xd, "posts_7d"),
               !.x_eng = Delta(x.eng_7d, xd, "eng_7d")]

\* Mutant of Exceeds: the threshold itself does not count.
ExceedsStrict(d, threshold) == d # None /\ Get(d) > threshold

\* One rule of main.py:1008-1017.
Exceeds(d, threshold) == d # None /\ Get(d) >= threshold

\* Mutant of Reasons: the two X rules are evaluated before the trailer rules.
ReasonsXFirst(ch) ==
    (IF Exceeds(ch.x_posts, ALERT_X_POSTS_CHANGE_24H)
        THEN << [label |-> "Mas conversacion en X (24 h)", delta |-> Get(ch.x_posts)] >> ELSE << >>)
    \o (IF Exceeds(ch.x_eng, ALERT_X_ENG_CHANGE_24H)
        THEN << [label |-> "Mas interaccion en X (24 h)", delta |-> Get(ch.x_eng)] >> ELSE << >>)
    \o (IF Exceeds(ch.views, ALERT_VIEWS_CHANGE_24H)
        THEN << [label |-> "Suba fuerte de vistas (24 h)", delta |-> Get(ch.views)] >> ELSE << >>)
    \o (IF Exceeds(ch.likes, ALERT_LIKES_CHANGE_24H)
        THEN << [label |-> "Suba fuerte de me gusta (24 h)", delta |-> Get(ch.likes)] >> ELSE << >>)
    \o (IF Exceeds(ch.comments, ALERT_COMMENTS_CHANGE_24H)
        THEN << [label |-> "Suba fuerte de comentarios (24 h)", delta |-> Get(ch.comments)] >> ELSE << >>)

\* reasons, main.py:1007-1017: the labels in the order they are appended.
Reasons(ch) ==
    (IF Exceeds(ch.views, ALERT_VIEWS_CHANGE_24H)
        THEN << [label |-> "Suba fuerte de vistas (24 h)", delta |-> Get(ch.views)] >> ELSE << >>)
    \o (IF Exceeds(ch.likes, ALERT_LIKES_CHANGE_24H)
        THEN << [label |-> "Suba fuerte de me gusta (24 h)", delta |-> Get(ch.likes)] >> ELSE << >>)
    \o (IF Exceeds(ch.comments, ALERT_COMMENTS_CHANGE_24H)
        THEN << [label |-> "Suba fuerte de comentarios (24 h)", delta |-> Get(ch.comments)] >> ELSE << >>)
    \o (IF Exceeds(ch.x_posts, ALERT_X_POSTS_CHANGE_24H)
        THEN << [label |-> "Mas conversacion en X (24 h)", delta |-> Get(ch.x_posts)] >> ELSE << >>)
    \o (IF Exceeds(ch.x_eng, ALERT_X_ENG_CHANGE_24H)
        THEN << [label |-> "Mas interaccion en X (24 h)", delta |-> Get(ch.x_eng)] >> ELSE << >>)

\* mm, main.py:1019-1032
ReportRow(m, p, st, x, ch) ==
    [title |-> m.title, title_key |-> m.title_key, release_date |-> m.release_date,
     trailer_url |-> m.trailer_url, trailer_platform |-> p,
     views |-> st.views, likes |-> st.likes, comments |-> st.comments,
     views_change_24h |-> ch.views, likes_change_24h |-> ch.likes,
     comments_change_24h |-> ch.comments,
     x_posts_7d |-> x.posts_7d, x_eng_7d |-> x.eng_7d,
     x_posts_change_24h |-> ch.x_posts, x_eng_change_24h |-> ch.x_eng,
     has_alert |-> (Reasons(ch) # << >>),
     alert_reason |-> IF Reasons(ch) # << >> THEN Some(Reasons(ch)) ELSE None]

-----------------------------------------------------------------------------
(* The report pages: fmt_int and the cells of build_table *)

DigitChars == << "0", "1", "2", "3", "4", "5", "6", "7", "8", "9" >>

\* The three digits of a group after the first one.
ThreeDigits(n) ==
    << DigitChars[(n \div 100) + 1], DigitChars[((n \div 10) % 10) + 1],
       DigitChars[(n % 10) + 1] >>

\* The digits of the first group, without leading zeros.
LeadDigits(n) ==
    IF n < 10 THEN << DigitChars[n + 1] >>
    ELSE IF n < 100 THEN << DigitChars[(n \div 10) + 1], DigitChars[(n % 10) + 1] >>
    ELSE ThreeDigits(n)

\* f"{n:,}".replace(",", ".") of n >= 0
RECURSIVE Grouped(_)
Grouped(n) ==
    IF n < 1000 THEN LeadDigits(n)
    ELSE Grouped(n \div 1000) \o << "." >> \o ThreeDigits(n % 1000)

\* fmt_int, main.py:282-288; "--" stands for the dash it gives for None.
fmt_int(n) ==
    IF n = None THEN << "--" >>
    ELSE IF Get(n) < 0 THEN << "-" >> \o Grouped(-Get(n))
    ELSE Grouped(Get(n))

\* The cells of one table row of build_table, main.py:815-871.
RenderRow(r) ==
    [title |-> r.title,
     badge |-> IF r.has_alert THEN "ALERTA" ELSE "OK",
     views |-> fmt_int(r.views), views_change |-> fmt_int(r.views_change_24h),
     likes |-> fmt_int(r.likes), likes_change |-> fmt_int(r.likes_change_24h),
     comments |-> fmt_int(r.comments), comments_change |-> fmt_int(r.comments_change_24h),
     x_posts |-> fmt_int(r.x_posts_7d), x_posts_change |-> fmt_int(r.x_posts_change_24h),
     x_eng |-> fmt_int(r.x_eng_7d), x_eng_change |-> fmt_int(r.x_eng_change_24h)]

\* build_table(rows, ...), main.py:810-871: one table row per entry of rows.
build_table(rows) == [n \in 1..Len(rows) |-> RenderRow(rows[n])]

-----------------------------------------------------------------------------
(* Inputs of a run: what the network gives *)

TitleA == << "A" >>
TitleB == << "b" >>

CatalogRow(title, d, url) == [title |-> title, date |-> d, trailer_url |-> url]

RECURSIVE SeqsUpTo(_, _)
SeqsUpTo(S, n) ==
    IF n = 0 THEN { << >> }
    ELSE LET shorter == SeqsUpTo(S, n - 1)
         IN  shorter \cup { Append(q, x) : q \in shorter, x \in S }

Download(kind, rows, h, tc, dc, rc) ==
    [kind |-> kind, rows |-> rows, has_header |-> h, title_col |-> tc,
     date_col |-> dc, trailer_col |-> rc]

\* The downloads load_catalog cannot use: the request raises, the sheet is empty,
\* has no header, or lacks the title, the date or the trailer column.
BadDownloads(t) ==
    { Download("raise", << >>, FALSE, FALSE, FALSE, FALSE),
      Download("ok", << >>, TRUE, TRUE, TRUE, TRUE),
      Download("ok", << CatalogRow(TitleA, Some(t), YT_URL) >>, FALSE, FALSE, FALSE, FALSE),
      Download("ok", << CatalogRow(TitleA, Some(t), YT_URL) >>, TRUE, FALSE, TRUE, TRUE),
      Download("ok", << CatalogRow(TitleA, Some(t), YT_URL) >>, TRUE, TRUE, FALSE, TRUE),
      Download("ok", << CatalogRow(TitleA, Some(t), YT_URL) >>, TRUE, TRUE, TRUE, FALSE) }

GoodDownloads(rowset) ==
    { Download("ok", rows, TRUE, TRUE, TRUE, TRUE) :
        rows \in SeqsUpTo(rowset, MaxCatalogRows) \ { << >> } }

\* Specification Spec (several runs over the days): one title, whose trailer
\* is on YouTube or on Vimeo.
RunRows(t) ==
    { CatalogRow(TitleA, Some(t), YT_URL),
      CatalogRow(TitleA, Some(t), VM_URL) }

RunDownloads(t) == BadDownloads(t) \cup GoodDownloads(RunRows(t))

\* Specification SpecFetch (one run): two titles, every kind of trailer URL.
FetchRows(t) ==
    { CatalogRow(TitleA, Some(t), url) : url \in { YT_URL, YT_NOID, VM_URL, VM_NOID } }
    \cup { CatalogRow(TitleB, Some(t + 1), url) : url \in { "", LINK_URL } }

FetchDownloads(t) == BadDownloads(t) \cup GoodDownloads(FetchRows(t))

NoResp == [kind |-> "none"]

Statistics(v, l, c) == [viewCount |-> v, likeCount |-> l, commentCount |-> c]

YTResponses ==
    { [kind |-> "raise"], [kind |-> "no_items"], [kind |-> "bad_item"],
      [kind |-> "item", statistics |-> None],
      [kind |-> "item", statistics |-> Some(Statistics(Some(100), Some(10), Some(1)))],
      [kind |-> "item", statistics |-> Some(Statistics(Some(2100), Some(160), None))] }

VimeoResponses ==
    { [kind |-> "raise"],
      [kind |-> "page", http_ok |-> TRUE, likes |-> Some(10), comments |-> Some(51)],
      [kind |-> "page", http_ok |-> FALSE, likes |-> None, comments |-> None] }

Tweet(l, r, rt, q) == [like_count |-> l, reply_count |-> r, retweet_count |-> rt, quote_count |-> q]

XResponses ==
    { [kind |-> "raise"],
      [kind |-> "no_data", error |-> None, title |-> Some(PyStr("Too Many Requests")),
       detail |-> Some(PyStr("Too Many Requests"))],
      [kind |-> "no_data", error |-> Some(PyDict("message")), title |-> None, detail |-> None],
      [kind |-> "no_data", error |-> None, title |-> None, detail |-> None],
      [kind |-> "data", tweets |-> << Tweet(1, 0, 0, 0) >>],
      [kind |-> "data", tweets |-> << Tweet(100, 20, 30, 1), Tweet(0, 0, 0, 0) >>] }

\* The answers of specification Spec: a failure and two different successes each.
RunYTResponses ==
    { r \in YTResponses : r.kind = "raise" \/ (r.kind = "item" /\ r.statistics # None) }

RunVimeoResponses == { r \in VimeoResponses : r.kind = "page" }

RunXResponses ==
    { r \in XResponses :
        \/ r.kind = "no_data" /\ r.error # None
        \/ r.kind = "no_data" /\ r.title # None
        \/ r.kind = "data" /\ Len(r.tweets) = 2 }

\* Whether the trailer adapter of url sends its request.
TrailerRequests(url) ==
    \/ is_youtube(url) /\ YOUTUBE_API_KEY # None /\ youtube_video_id(url) # None
    \/ ~is_youtube(url) /\ is_vimeo(url) /\ vimeo_id(url) # None

\* The answers the trailer adapter of url may get, of the YouTube answers yt and
\* the Vimeo answers vm; an adapter that sends no request gets none.
TrailerResponses(url, yt, vm) ==
    IF ~TrailerRequests(url) THEN { NoResp }
    ELSE IF is_youtube(url) THEN yt ELSE vm

XResponsesOf(xs) == IF X_BEARER_TOKEN = None THEN { NoResp } ELSE xs

\* What a fetch met: "none" (no adapter for the URL), "unconfigured" (the
\* credential is missing), "no_request" (no video id), "failed" (network error,
\* error answer, malformed answer) or "ok".
TrailerCallKind(url, resp) ==
    IF ~is_youtube(url) /\ ~is_vimeo(url) THEN "none"
    ELSE IF is_youtube(url) /\ YOUTUBE_API_KEY = None THEN "unconfigured"
    ELSE IF ~TrailerRequests(url) THEN "no_request"
    ELSE IF resp.kind \in {"raise", "no_items", "bad_item"} THEN "failed"
    ELSE IF resp.kind = "item" /\ resp.statistics = None THEN "failed"
    ELSE IF resp.kind = "page" /\ ~resp.http_ok THEN "failed"
    ELSE "ok"

XCallKind(resp) ==
    IF X_BEARER_TOKEN = None THEN "unconfigured"
    ELSE IF resp.kind \in {"raise", "no_data"} THEN "failed"
    ELSE "ok"

-----------------------------------------------------------------------------
(* The process: import of main.py, main(), exit *)

\* Mutant of TrailerRequestCount: the adapter sends its request a second time.
TrailerRequestCountRetry(url) == IF TrailerRequests(url) THEN 2 ELSE 0

\* How many requests.get one call of the trailer adapter of url sends
\* (main.py:495, main.py:516), and one call of x_metrics (main.py:549).
TrailerRequestCount(url) == IF TrailerRequests(url) THEN 1 ELSE 0
XRequestCount(title) == IF X_BEARER_TOKEN = None THEN 0 ELSE 1

\* The record of one pass of the loop body: the title, what each adapter met,
\* the answers it got and the requests it sent.
NoCall ==
    [title_key |-> None, trailer |-> "none", x |-> "none",
     trailer_resp |-> NoResp, x_resp |-> NoResp,
     trailer_requests |-> 0, x_requests |-> 0, x_called |-> FALSE]
NoRef == [trailer |-> None, x |-> None]

PageNames == << "index.html", "proximos.html", "estrenadas.html" >>

\* The locals of main() before main() has set them.
LocalsReset ==
    /\ movies' = << >>
    /\ cat_today' = None
    /\ today' = None
    /\ today_str' = None
    /\ i' = 0
    /\ stats' = NoStats
    /\ platform' = "--"
    /\ y' = None
    /\ xm' = NoXStats
    /\ xy' = None
    /\ change' = NoChange
    /\ enriched' = << >>
    /\ pages' = None
    /\ published' = << >>
    /\ email_sent' = FALSE
    /\ download' = None
    /\ call' = NoCall
    /\ calls' = << >>
    /\ ref' = NoRef

\* The configuration a behaviour runs under (config.env, read at import).
InitConfig ==
    /\ YOUTUBE_API_KEY \in { None, Some("key") }
    /\ X_BEARER_TOKEN \in { None, Some("token") }
    \* main.py binds no global INCAA_HIST_CSV: None is the unbound name.  The
    \* other value is a main.py that names the file its header (lines 9-12) and
    \* incaa_manual_import_helper.py:11 say it reads.
    /\ INCAA_HIST_CSV \in { None, Some("incaa_historico_manual.csv") }

\* The columns the CREATE TABLE statements and the needed dicts name
\* (main.py:128-139 and 145-154, main.py:162-171 and 176-183), in their order.
TrailerNeeded ==
    << "date", "title_key", "trailer_url", "platform", "views", "likes", "comments", "err" >>
XNeeded == << "date", "title_key", "title", "posts_7d", "eng_7d", "err" >>

\* The schema once main.py:190-191 have run on a new file.
FullSchema == [trailer_daily |-> Some(TrailerNeeded), x_daily |-> Some(XNeeded)]

\* Before main.py:949.
NoUltra == [items |-> << >>, err |-> None, queried |-> 0, raised |-> FALSE, answers |-> << >>]

\* No upsert_file call yet.
NoExchange == [lookup |-> None, put |-> None, raised |-> FALSE]

\* Day 0, an empty database, no process.
InitState ==
    /\ clock = 0
    /\ trailer_daily = EmptyBag
    /\ x_daily = EmptyBag
    /\ conn = "closed"
    /\ runs = 0
    /\ movies = << >>
    /\ cat_today = None
    /\ today = None
    /\ today_str = None
    /\ i = 0
    /\ stats = NoStats
    /\ platform = "--"
    /\ y = None
    /\ xm = NoXStats
    /\ xy = None
    /\ change = NoChange
    /\ enriched = << >>
    /\ pages = None
    /\ published = << >>
    /\ email_sent = FALSE
    /\ download = None
    /\ call = NoCall
    /\ calls = << >>
    /\ ref = NoRef
    /\ start = << EmptyBag, EmptyBag >>
    /\ last_trailer = << >>
    /\ last_x = << >>
    /\ txn = None
    /\ schema = FullSchema
    /\ gh = NoExchange
    /\ ultra = NoUltra

Init == InitConfig /\ InitState /\ pc = "idle"

\* The calendar date changes, at any point of a run or between runs.
Midnight ==
    /\ clock < MaxDay
    /\ clock' = clock + 1
    /\ UNCHANGED << ultra, gh, schema, txn, YOUTUBE_API_KEY, X_BEARER_TOKEN, INCAA_HIST_CSV, trailer_daily,
                    x_daily, conn, pc, runs, movies, cat_today, today, today_str, i,
                    stats, platform, y, xm, xy, change, enriched, pages, published,
                    email_sent, download, call, calls, ref, start,
                    last_trailer, last_x >>

\* python main.py: the module is imported (the connection opened, the tables
\* ensured), then main() is called.
StartProcess ==
    /\ pc = "idle"
    /\ runs < MaxRuns
    /\ runs' = runs + 1
    /\ conn' = "open"
    /\ start' = << trailer_daily, x_daily >>
    /\ pc' = "load_catalog"
    /\ UNCHANGED << ultra, gh, schema, txn, clock, YOUTUBE_API_KEY, X_BEARER_TOKEN, INCAA_HIST_CSV,
                    trailer_daily, x_daily, movies, cat_today, today, today_str, i,
                    stats, platform, y, xm, xy, change, enriched, pages, published,
                    email_sent, download, call, calls, ref,
                    last_trailer, last_x >>

\* main.py:945, load_catalog(CSV_URLS), the download being one of downloads
LoadCatalogOf(downloads) ==
    /\ pc = "load_catalog"
    /\ \E dl \in downloads :
         /\ download' = Some(dl)
         /\ IF CatalogFails(dl)
            THEN /\ pc' = "raised"
                 /\ UNCHANGED << movies, cat_today >>
            ELSE /\ movies' = load_catalog(dl.rows, clock)
                 /\ cat_today' = Some(clock)
                 /\ pc' = "load_incaa"
    /\ UNCHANGED << ultra, gh, schema, txn, clock, YOUTUBE_API_KEY, X_BEARER_TOKEN, INCAA_HIST_CSV,
                    trailer_daily, x_daily, conn, runs, today, today_str, i, stats,
                    platform, y, xm, xy, change, enriched, pages, published,
                    email_sent, call, calls, ref, start,
                    last_trailer, last_x >>

\* main.py:946-950: load_incaa_historico_manual(INCAA_HIST_CSV) raises NameError
\* when the global is unbound; fetch_ultracine_top() follows.
LoadAux ==
    /\ pc = "load_incaa"
    /\ pc' = IF INCAA_HIST_CSV = None THEN "raised" ELSE "today"
    /\ UNCHANGED << ultra, gh, schema, txn, clock, YOUTUBE_API_KEY, X_BEARER_TOKEN, INCAA_HIST_CSV,
                    trailer_daily, x_daily, conn, runs, movies, cat_today, today,
                    today_str, i, stats, platform, y, xm, xy, change, enriched, pages,
                    published, email_sent, download, call, calls, ref, start,
                    last_trailer, last_x >>

\* main.py:952-956
TakeToday ==
    /\ pc = "today"
    /\ today' = Some(clock)
    /\ today_str' = Some(isoformat(clock))
    /\ enriched' = << >>
    /\ i' = 1
    /\ pc' = IF movies = << >> THEN "assemble" ELSE "trailer"
    /\ UNCHANGED << ultra, gh, schema, txn, clock, YOUTUBE_API_KEY, X_BEARER_TOKEN, INCAA_HIST_CSV,
                    trailer_daily, x_daily, conn, runs, movies, cat_today, stats,
                    platform, y, xm, xy, change, pages, published, email_sent,
                    download, call, calls, ref, start,
                    last_trailer, last_x >>

\* main.py:957-982: the trailer adapter, then upsert_trailer_daily; the request
\* is answered by one of yt (YouTube) or vm (Vimeo)
FetchTrailerOf(yt, vm) ==
    /\ pc = "trailer"
    /\ LET m == movies[i]
           url == m.trailer_url
       IN  \E resp \in TrailerResponses(url, yt, vm) :
             LET sp == TrailerBranch(url, resp)
                 st == sp[1]
             IN  /\ stats' = st
                 /\ platform' = sp[2]
                 /\ call' = [NoCall EXCEPT !.title_key = Some(m.title_key),
                                            !.trailer = TrailerCallKind(url, resp),
                                            !.trailer_resp = resp,
                                            !.trailer_requests = TrailerRequestCount(url)]
                 /\ IF Bindable(st.err)
                    THEN /\ trailer_daily' =
                              upsert_trailer_daily(Get(today_str), m.title_key, url,
                                                   PlatformLower(sp[2]), st.views,
                                                   st.likes, st.comments, st.err)
                         /\ last_trailer' =
                              Latest(last_trailer, << Get(today_str), m.title_key, url >>,
                                     TrailerRow(Get(today_str), m.title_key, url,
                                                PlatformLower(sp[2]), st.views, st.likes,
                                                st.comments, st.err))
                         /\ pc' = "trailer_y"
                    ELSE /\ pc' = "raised"
                         /\ UNCHANGED << trailer_daily, last_trailer >>
    /\ UNCHANGED << ultra, gh, schema, txn, clock, YOUTUBE_API_KEY, X_BEARER_TOKEN, INCAA_HIST_CSV, x_daily,
                    conn, runs, movies, cat_today, today, today_str, i, y, xm, xy,
                    change, enriched, pages, published, email_sent, download, calls,
                    ref, start,
                    last_x >>

\* What fetchone() gives of the rows a SELECT matched.
FetchOne(rows) == IF rows = {} THEN { None } ELSE { Some(r) : r \in rows }

\* main.py:984-992: get_trailer_yesterday, then the three trailer deltas
TrailerYesterday ==
    /\ pc = "trailer_y"
    /\ LET m == movies[i]
       IN  \E row \in FetchOne(TrailerYesterdayRows(m.title_key, m.trailer_url)) :
             /\ y' = TrailerYDict(row)
             /\ change' = TrailerChange(stats, TrailerYDict(row))
    /\ ref' = [trailer |-> Some(isoformat(clock - 1)), x |-> None]
    /\ pc' = "x"
    /\ UNCHANGED << ultra, gh, schema, txn, clock, YOUTUBE_API_KEY, X_BEARER_TOKEN, INCAA_HIST_CSV,
                    trailer_daily, x_daily, conn, runs, movies, cat_today, today,
                    today_str, i, stats, platform, xm, xy, enriched, pages, published,
                    email_sent, download, call, calls, start,
                    last_trailer, last_x >>

\* main.py:995-996: x_metrics, then upsert_x_daily; the request is answered by
\* one of xs
FetchXOf(xs) ==
    /\ pc = "x"
    /\ LET m == movies[i]
       IN  \E resp \in XResponsesOf(xs) :
             LET x == x_metrics(m.title, resp)
             IN  /\ xm' = x
                 /\ call' = [call EXCEPT !.x = XCallKind(resp),
                                          !.x_resp = resp,
                                          !.x_requests = XRequestCount(m.title),
                                          !.x_called = TRUE]
                 /\ IF Bindable(x.err)
                    THEN /\ x_daily' = upsert_x_daily(Get(today_str), m.title_key, m.title,
                                                      x.posts_7d, x.eng_7d, x.err)
                         /\ last_x' =
                              Latest(last_x, << Get(today_str), m.title_key >>,
                                     XRow(Get(today_str), m.title_key, m.title,
                                          x.posts_7d, x.eng_7d, x.err))
                         /\ pc' = "x_y"
                    ELSE /\ pc' = "raised"
                         /\ UNCHANGED << x_daily, last_x >>
    /\ UNCHANGED << ultra, gh, schema, txn, clock, YOUTUBE_API_KEY, X_BEARER_TOKEN, INCAA_HIST_CSV,
                    trailer_daily, conn, runs, movies, cat_today, today, today_str, i,
                    stats, platform, y, xy, change, enriched, pages, published,
                    email_sent, download, calls, ref, start,
                    last_trailer >>

\* main.py:998-1034: get_x_yesterday, the two X deltas, the alert, the report row
XYesterday ==
    /\ pc = "x_y"
    /\ LET m == movies[i]
       IN  \E row \in FetchOne(XYesterdayRows(m.title_key)) :
             LET ch == XChange(change, xm, XYDict(row))
             IN  /\ xy' = XYDict(row)
                 /\ change' = ch
                 /\ enriched' = Append(enriched, ReportRow(m, platform, stats, xm, ch))
    /\ ref' = [ref EXCEPT !.x = Some(isoformat(clock - 1))]
    /\ calls' = Append(calls, call)
    /\ i' = i + 1
    /\ pc' = IF i = Len(movies) THEN "assemble" ELSE "trailer"
    /\ UNCHANGED << ultra, gh, schema, txn, clock, YOUTUBE_API_KEY, X_BEARER_TOKEN, INCAA_HIST_CSV,
                    trailer_daily, x_daily, conn, runs, movies, cat_today, today,
                    today_str, stats, platform, y, xm, pages, published, email_sent,
                    download, call, start,
                    last_trailer, last_x >>

\* released.sort(key=release_date, reverse=True): a stable sort, latest first
RECURSIVE InsertByDateDesc(_, _)
InsertByDateDesc(m, s) ==
    IF s = << >> THEN << m >>
    ELSE IF s[Len(s)].release_date >= m.release_date THEN Append(s, m)
         ELSE Append(InsertByDateDesc(m, SubSeq(s, 1, Len(s) - 1)), s[Len(s)])

RECURSIVE SortByDateDesc(_)
SortByDateDesc(s) ==
    IF s = << >> THEN << >>
    ELSE InsertByDateDesc(s[Len(s)], SortByDateDesc(SubSeq(s, 1, Len(s) - 1)))

\* Mutant of Upcoming: a title released today counts as upcoming too.
UpcomingFromToday(rows, t) ==
    LET NotEarlier(m) == m.release_date >= t IN SelectSeq(rows, NotEarlier)

\* main.py:1037-1046
Upcoming(rows, t) == LET Later(m) == m.release_date > t IN SelectSeq(rows, Later)
Released(rows, t) ==
    LET NotLater(m) == m.release_date <= t IN SortByDateDesc(SelectSeq(rows, NotLater))
Alerted(rows) == LET Has(m) == m.has_alert IN SelectSeq(rows, Has)

\* main.py:1037-1067: the two page lists and the counts of the index
Assemble ==
    /\ pc = "assemble"
    /\ pages' = Some([upcoming |-> Upcoming(enriched, Get(today)),
                      released |-> Released(enriched, Get(today)),
                      proximos_html |-> build_table(Upcoming(enriched, Get(today))),
                      estrenadas_html |-> build_table(Released(enriched, Get(today))),
                      counts |-> << Len(enriched), Len(Upcoming(enriched, Get(today))),
                                    Len(Released(enriched, Get(today))),
                                    Len(Alerted(enriched)) >>])
    /\ pc' = "publish"
    /\ UNCHANGED << ultra, gh, schema, txn, clock, YOUTUBE_API_KEY, X_BEARER_TOKEN, INCAA_HIST_CSV,
                    trailer_daily, x_daily, conn, runs, movies, cat_today, today,
                    today_str, i, stats, platform, y, xm, xy, change, enriched,
                    published, email_sent, download, call, calls, ref, start,
                    last_trailer, last_x >>

\* Mutant of Publish: a page GitHub refuses is skipped and main() goes on.
PublishSkippingFailures ==
    /\ pc = "publish"
    /\ \E ok \in BOOLEAN :
         /\ published' = IF ok THEN Append(published, PageNames[Len(published) + 1])
                               ELSE published
         /\ pc' = IF ok /\ Len(published) + 1 < Len(PageNames) THEN "publish" ELSE "email"
    /\ UNCHANGED << ultra, gh, schema, txn, clock, YOUTUBE_API_KEY, X_BEARER_TOKEN, INCAA_HIST_CSV,
                    trailer_daily, x_daily, conn, runs, movies, cat_today, today,
                    today_str, i, stats, platform, y, xm, xy, change, enriched, pages,
                    email_sent, download, call, calls, ref, start,
                    last_trailer, last_x >>

\* main.py:1070-1072: one publish_html call; upsert_file raises when GitHub refuses
Publish ==
    /\ pc = "publish"
    /\ \E ok \in BOOLEAN :
         IF ok
         THEN /\ published' = Append(published, PageNames[Len(published) + 1])
              /\ pc' = IF Len(published) + 1 = Len(PageNames) THEN "email" ELSE "publish"
         ELSE /\ pc' = "raised"
              /\ UNCHANGED published
    /\ UNCHANGED << ultra, gh, schema, txn, clock, YOUTUBE_API_KEY, X_BEARER_TOKEN, INCAA_HIST_CSV,
                    trailer_daily, x_daily, conn, runs, movies, cat_today, today,
                    today_str, i, stats, platform, y, xm, xy, change, enriched, pages,
                    email_sent, download, call, calls, ref, start,
                    last_trailer, last_x >>

\* main.py:1075-1077: send_link_email raises when the SMTP server refuses
SendEmail ==
    /\ pc = "email"
    /\ \E ok \in BOOLEAN :
         IF ok
         THEN /\ email_sent' = TRUE
              /\ pc' = "returned"
         ELSE /\ pc' = "raised"
              /\ UNCHANGED email_sent
    /\ UNCHANGED << ultra, gh, schema, txn, clock, YOUTUBE_API_KEY, X_BEARER_TOKEN, INCAA_HIST_CSV,
                    trailer_daily, x_daily, conn, runs, movies, cat_today, today,
                    today_str, i, stats, platform, y, xm, xy, change, enriched, pages,
                    published, download, call, calls, ref, start,
                    last_trailer, last_x >>

\* Mutant of Exit: conn.close() follows main() without a finally clause, and an
\* exception leaves the connection open and its last statement undone.
ExitNoFinally ==
    /\ pc \in { "returned", "raised" }
    /\ conn' = IF pc = "returned" THEN "closed" ELSE conn
    /\ pc' = "idle"
    /\ LocalsReset
    /\ trailer_daily' = IF pc = "returned" THEN trailer_daily ELSE start[1]
    /\ UNCHANGED << ultra, gh, schema, txn, clock, YOUTUBE_API_KEY, X_BEARER_TOKEN, INCAA_HIST_CSV,
                    x_daily, runs, start, last_trailer, last_x >>

\* main.py:1080-1084: finally conn.close(), after main() returned or raised; the
\* process ends and its locals with it.
Exit ==
    /\ pc \in { "returned", "raised" }
    /\ conn' = "closed"
    /\ pc' = "idle"
    /\ LocalsReset
    /\ UNCHANGED << ultra, gh, schema, txn, clock, YOUTUBE_API_KEY, X_BEARER_TOKEN, INCAA_HIST_CSV,
                    trailer_daily, x_daily, runs, start,
                    last_trailer, last_x >>

LoadCatalog == LoadCatalogOf(RunDownloads(clock))
FetchTrailer == FetchTrailerOf(RunYTResponses, RunVimeoResponses)
FetchX == FetchXOf(RunXResponses)

Next ==
    \/ Midnight
    \/ StartProcess
    \/ LoadCatalog
    \/ LoadAux
    \/ TakeToday
    \/ FetchTrailer
    \/ TrailerYesterday
    \/ FetchX
    \/ XYesterday
    \/ Assemble
    \/ Publish
    \/ SendEmail
    \/ Exit

\* The program over the days: runs of main(), one after the other, the date
\* changing at any moment.
Spec == Init /\ [][Next]_vars

-----------------------------------------------------------------------------
(* One run of main(), over two titles and every answer of the network *)

StartOnce == runs = 0 /\ StartProcess
LoadCatalogAny == LoadCatalogOf(FetchDownloads(clock))
FetchTrailerAny == FetchTrailerOf(YTResponses, VimeoResponses)
FetchXAny == FetchXOf(XResponses)

NextFetch ==
    \/ Midnight
    \/ StartOnce
    \/ LoadCatalogAny
    \/ LoadAux
    \/ TakeToday
    \/ FetchTrailerAny
    \/ TrailerYesterday
    \/ FetchXAny
    \/ XYesterday
    \/ Assemble
    \/ Publish
    \/ SendEmail
    \/ Exit

SpecFetch == Init /\ [][NextFetch]_vars

-----------------------------------------------------------------------------
(* The deltas and the alert of one title, as functions of the values fetched   *)
(* today and of the previous-day rows: every combination of absent values,     *)
(* equal values, a drop, a rise of exactly the threshold and of one less.      *)

TodayValues(threshold) == { None, Some(0), Some(threshold) }
YesterdayValues == { None, Some(0), Some(1) }

EngineStats ==
    { TrailerStats(v, l, c, None) :
        v \in TodayValues(ALERT_VIEWS_CHANGE_24H),
        l \in TodayValues(ALERT_LIKES_CHANGE_24H),
        c \in TodayValues(ALERT_COMMENTS_CHANGE_24H) }

EngineYRows ==
    { None } \cup
    { Some(TrailerRow(isoformat(-1), norm_title_key(TitleA), YT_URL, "youtube", v, l, c, None)) :
        v \in YesterdayValues, l \in YesterdayValues, c \in YesterdayValues }

EngineXStats ==
    { XStats(p, e, None) :
        p \in TodayValues(ALERT_X_POSTS_CHANGE_24H), e \in TodayValues(ALERT_X_ENG_CHANGE_24H) }

EngineXYRows ==
    { None } \cup
    { Some(XRow(isoformat(-1), norm_title_key(TitleA), TitleA, p, e, None)) :
        p \in YesterdayValues, e \in YesterdayValues }

EngineMovie == Movie(CatalogRow(TitleA, Some(0), YT_URL), norm_title_key(TitleA))

\* main.py:984-992 for the stats and the previous-day row drawn
EngineTrailer ==
    /\ pc = "engine"
    /\ \E st \in EngineStats, row \in EngineYRows :
         /\ stats' = st
         /\ y' = TrailerYDict(row)
         /\ change' = TrailerChange(st, TrailerYDict(row))
    /\ pc' = "engine_x"
    /\ UNCHANGED << ultra, gh, schema, txn, clock, YOUTUBE_API_KEY, X_BEARER_TOKEN, INCAA_HIST_CSV,
                    trailer_daily, x_daily, conn, runs, movies, cat_today, today,
                    today_str, i, platform, xm, xy, enriched, pages, published,
                    email_sent, download, call, calls, ref, start, last_trailer, last_x >>

\* main.py:998-1034 for the X metrics and the previous-day row drawn
EngineX ==
    /\ pc = "engine_x"
    /\ \E x \in EngineXStats, row \in EngineXYRows :
         /\ xm' = x
         /\ xy' = XYDict(row)
         /\ change' = XChange(change, x, XYDict(row))
         /\ enriched' = << ReportRow(EngineMovie, "YouTube", stats, x,
                                     XChange(change, x, XYDict(row))) >>
    /\ pc' = "engine_done"
    /\ UNCHANGED << ultra, gh, schema, txn, clock, YOUTUBE_API_KEY, X_BEARER_TOKEN, INCAA_HIST_CSV,
                    trailer_daily, x_daily, conn, runs, movies, cat_today, today,
                    today_str, i, stats, platform, y, pages, published, email_sent,
                    download, call, calls, ref, start, last_trailer, last_x >>

InitDelta ==
    /\ YOUTUBE_API_KEY = Some("key")
    /\ X_BEARER_TOKEN = Some("token")
    /\ INCAA_HIST_CSV = Some("incaa_historico_manual.csv")
    /\ InitState
    /\ pc = "engine"

NextDelta == EngineTrailer \/ EngineX

SpecDelta == InitDelta /\ [][NextDelta]_vars

-----------------------------------------------------------------------------
(* load_catalog over catalogs whose release dates lie on and around the two    *)
(* ends of the window, with titles that share a title_key or have none.        *)

WindowTitles == { << "A" >>, << "a" >>, << "b" >>, << " " >> }

WindowDates(t) ==
    { None, Some(t - PAST_DAYS - 1), Some(t - PAST_DAYS), Some(t),
      Some(t + FUTURE_DAYS), Some(t + FUTURE_DAYS + 1) }

WindowRows(t) ==
    { CatalogRow(title, d, YT_URL) : title \in WindowTitles, d \in WindowDates(t) }

LoadCatalogWindow == LoadCatalogOf(GoodDownloads(WindowRows(clock)))

NextCatalog == Midnight \/ StartOnce \/ LoadCatalogWindow

SpecCatalog == Init /\ [][NextCatalog]_vars

-----------------------------------------------------------------------------
(* One run of main() over catalogs with titles inside and outside the window,  *)
(* with and without a trailer.                                                  *)

FrameRows(t) ==
    { CatalogRow(TitleA, Some(t), YT_URL),
      CatalogRow(<< "a" >>, Some(t - PAST_DAYS - 1), VM_URL),
      CatalogRow(TitleB, Some(t + FUTURE_DAYS), ""),
      CatalogRow(TitleB, Some(t + FUTURE_DAYS + 1), LINK_URL) }

LoadCatalogFrame == LoadCatalogOf(GoodDownloads(FrameRows(clock)))

NextFrame ==
    \/ Midnight
    \/ StartOnce
    \/ LoadCatalogFrame
    \/ LoadAux
    \/ TakeToday
    \/ FetchTrailer
    \/ TrailerYesterday
    \/ FetchX
    \/ XYesterday
    \/ Assemble
    \/ Publish
    \/ SendEmail
    \/ Exit

SpecFrame == Init /\ [][NextFrame]_vars

-----------------------------------------------------------------------------
(* load_catalog over catalogs whose titles are spellings of one another: case, *)
(* accents, punctuation, underscore, and spaces around, between and doubled.   *)

KeyTitles ==
    { << "A" >>, << "a" >>, << "A_acute" >>, << "a_acute" >>, << " ", "a" >>,
      << "a", "!" >>, << "a", "b" >>, << "a", " ", "b" >>, << "a", " ", " ", "B" >>,
      << "a", "-", "b" >>, << "a", " ", "-", " ", "b" >>, << "a", "_", "b" >> }

KeyRows(t) == { CatalogRow(title, Some(t), YT_URL) : title \in KeyTitles }

LoadCatalogKey == LoadCatalogOf(GoodDownloads(KeyRows(clock)))

NextKey == Midnight \/ StartOnce \/ LoadCatalogKey

SpecKey == Init /\ [][NextKey]_vars

-----------------------------------------------------------------------------
(* The import of main.py (lines 190-191) on database files of earlier versions: *)
(* a table may be missing, lack columns, or have columns of its own.            *)

ColumnSet(cols) == { cols[j] : j \in 1..Len(cols) }

\* sqlite compares column names without regard to case.
ColumnFold(c) == IF c = "ERR" THEN "err" ELSE c

\* ALTER TABLE ... ADD COLUMN c: every row gets NULL in the new column.
AddColumn(rows, c) ==
    LET Wider(r) == [k \in DOMAIN r \cup {c} |-> IF k = c THEN None ELSE r[k]]
    IN  [q \in { Wider(r) : r \in DOMAIN rows } |->
            rows[CHOOSE r \in DOMAIN rows : Wider(r) = q]]

\* The loop "for c, t in needed.items()" (main.py:155-157, 184-186): a column
\* not in cols is added; sqlite refuses a name the table has in another case.
RECURSIVE AddMissing(_, _, _, _)
AddMissing(needed, known, cols, rows) ==
    IF needed = << >> THEN [cols |-> cols, rows |-> rows, raised |-> FALSE]
    ELSE LET c == Head(needed)
         IN  IF c \in known
             THEN AddMissing(Tail(needed), known, cols, rows)
             ELSE IF ColumnFold(c) \in { ColumnFold(k) : k \in ColumnSet(cols) }
             THEN [cols |-> cols, rows |-> rows, raised |-> TRUE]
             ELSE AddMissing(Tail(needed), known, Append(cols, c), AddColumn(rows, c))

\* Mutant of ensure_table: a table that lacks a column is dropped and created anew.
ensure_table_recreate(needed, sch, rows) ==
    IF sch # None /\ ColumnSet(needed) \subseteq ColumnSet(Get(sch))
    THEN [cols |-> Get(sch), rows |-> rows, raised |-> FALSE]
    ELSE [cols |-> needed, rows |-> EmptyBag, raised |-> FALSE]

\* ensure_table_trailer_daily / ensure_table_x_daily (main.py:127-158, 161-187):
\* CREATE TABLE IF NOT EXISTS, then the missing columns; cols is read once,
\* before the loop (main.py:143, 175).
ensure_table(needed, sch, rows) ==
    LET cols == IF sch = None THEN needed ELSE Get(sch)
        old == IF sch = None THEN EmptyBag ELSE rows
    IN  AddMissing(needed, ColumnSet(cols), cols, old)

\* main.py:190
EnsureTrailer ==
    /\ pc = "import"
    /\ LET e == ensure_table(TrailerNeeded, schema.trailer_daily, trailer_daily)
       IN  /\ schema' = [schema EXCEPT !.trailer_daily = Some(e.cols)]
           /\ trailer_daily' = e.rows
           /\ pc' = IF e.raised THEN "raised" ELSE "ensure_x"
    /\ UNCHANGED << ultra, gh, clock, YOUTUBE_API_KEY, X_BEARER_TOKEN, INCAA_HIST_CSV, x_daily,
                    conn, runs, movies, cat_today, today, today_str, i, stats, platform,
                    y, xm, xy, change, enriched, pages, published, email_sent, download,
                    call, calls, ref, start, last_trailer, last_x, txn >>

\* main.py:191
EnsureX ==
    /\ pc = "ensure_x"
    /\ LET e == ensure_table(XNeeded, schema.x_daily, x_daily)
       IN  /\ schema' = [schema EXCEPT !.x_daily = Some(e.cols)]
           /\ x_daily' = e.rows
           /\ pc' = IF e.raised THEN "raised" ELSE "imported"
    /\ UNCHANGED << ultra, gh, clock, YOUTUBE_API_KEY, X_BEARER_TOKEN, INCAA_HIST_CSV,
                    trailer_daily, conn, runs, movies, cat_today, today, today_str, i,
                    stats, platform, y, xm, xy, change, enriched, pages, published,
                    email_sent, download, call, calls, ref, start, last_trailer, last_x,
                    txn >>

\* Tables left by earlier versions: without the metric columns, without err,
\* with a column of their own, with err spelled in capitals.
PriorTrailerSchemas ==
    { None,
      Some(TrailerNeeded),
      Some(<< "date", "title_key", "trailer_url", "views" >>),
      Some(<< "title_key", "views", "likes", "err" >>),
      Some(<< "date", "title_key", "trailer_url", "platform", "views", "likes",
              "comments", "note" >>),
      Some(<< "date", "title_key", "trailer_url", "platform", "views", "likes",
              "comments", "ERR" >>) }

PriorXSchemas ==
    { None,
      Some(XNeeded),
      Some(<< "date", "title_key", "title" >>),
      Some(<< "note", "date", "title_key", "title", "posts_7d", "eng_7d" >>),
      Some(<< "date", "title_key", "title", "posts_7d", "eng_7d", "ERR" >>) }

\* A row of an earlier version: the columns of its table, out of a full row.
PriorRow(r, cols) ==
    [c \in ColumnSet(cols) |->
        IF c \in DOMAIN r THEN r[c] ELSE IF c = "note" THEN Some("kept") ELSE r.err]

PriorTrailerRows ==
    { TrailerRow(isoformat(0), TitleA, YT_URL, "youtube", Some(100), Some(10), Some(1), None),
      TrailerRow(isoformat(0), TitleB, VM_URL, "vimeo", None, None, None,
                 Some(PyStr("HTTP 404"))) }

PriorXRows ==
    { XRow(isoformat(0), TitleA, TitleA, Some(5), Some(40), None),
      XRow(isoformat(0), TitleB, TitleB, None, None, Some(PyStr("HTTP 429"))) }

PriorTables(sch, full) ==
    IF sch = None THEN { EmptyBag }
    ELSE { SetToBag({ PriorRow(r, Get(sch)) : r \in S }) : S \in SUBSET full }

InitSchema ==
    /\ YOUTUBE_API_KEY = Some("key")
    /\ X_BEARER_TOKEN = Some("token")
    /\ INCAA_HIST_CSV = None
    /\ \E st \in PriorTrailerSchemas, sx \in PriorXSchemas :
          /\ schema = [trailer_daily |-> st, x_daily |-> sx]
          /\ trailer_daily \in PriorTables(st, PriorTrailerRows)
          /\ x_daily \in PriorTables(sx, PriorXRows)
    /\ pc = "import"
    /\ clock = 0
    /\ conn = "open"
    /\ runs = 0
    /\ movies = << >>
    /\ cat_today = None
    /\ today = None
    /\ today_str = None
    /\ i = 0
    /\ stats = NoStats
    /\ platform = "--"
    /\ y = None
    /\ xm = NoXStats
    /\ xy = None
    /\ change = NoChange
    /\ enriched = << >>
    /\ pages = None
    /\ published = << >>
    /\ email_sent = FALSE
    /\ download = None
    /\ call = NoCall
    /\ calls = << >>
    /\ ref = NoRef
    /\ start = << EmptyBag, EmptyBag >>
    /\ last_trailer = << >>
    /\ last_x = << >>
    /\ txn = None
    /\ gh = NoExchange
    /\ ultra = NoUltra

NextSchema == EnsureTrailer \/ EnsureX

SpecSchema == InitSchema /\ [][NextSchema]_vars

-----------------------------------------------------------------------------
(* One run of main() with no title in the window, at the grain of the two      *)
(* requests of upsert_file: the sha lookup and the PUT, each with any answer.  *)

\* Answers of GET .../contents/<path>: the status and what r.json() gives (a
\* file object with its sha, an object without sha, the list of a directory).
LookupAnswers ==
    { [status |-> 200, body |-> "file"], [status |-> 200, body |-> "no_sha"],
      [status |-> 200, body |-> "list"], [status |-> 404, body |-> "message"],
      [status |-> 204, body |-> "none"], [status |-> 304, body |-> "none"],
      [status |-> 403, body |-> "message"], [status |-> 500, body |-> "message"] }

PutStatuses == { 200, 201, 202, 409, 422, 500 }

\* Response.raise_for_status(): HTTPError for a status from 400 to 599.
RaisesForStatus(status) == 400 <= status /\ status < 600

\* get_file_sha, publisher_github_pages.py:11-18: r.json().get("sha") on 200
\* (a list has no get), None on 404, raise_for_status() and then the end of the
\* function, which returns None.
get_file_sha(ans) ==
    IF ans.status = 200
    THEN IF ans.body = "list" THEN [raised |-> TRUE, sha |-> None]
         ELSE [raised |-> FALSE, sha |-> IF ans.body = "file" THEN Some("sha1") ELSE None]
    ELSE IF ans.status = 404 THEN [raised |-> FALSE, sha |-> None]
    ELSE [raised |-> RaisesForStatus(ans.status), sha |-> None]

\* upsert_file, publisher_github_pages.py:20-40
upsert_file(ans, put_status) ==
    LET g == get_file_sha(ans)
    IN  IF g.raised
        THEN [lookup |-> Some(ans), put |-> None, raised |-> TRUE]
        ELSE [lookup |-> Some(ans),
              put |-> Some([sha |-> g.sha, status |-> put_status]),
              raised |-> put_status \notin { 200, 201 }]

\* main.py:1070-1072: one publish_html call, that is one upsert_file call
PublishFile ==
    /\ pc = "publish"
    /\ \E ans \in LookupAnswers, put_status \in PutStatuses :
         LET u == upsert_file(ans, put_status)
         IN  /\ gh' = u
             /\ IF u.raised
                THEN /\ pc' = "raised"
                     /\ UNCHANGED published
                ELSE /\ published' = Append(published, PageNames[Len(published) + 1])
                     /\ pc' = IF Len(published) + 1 = Len(PageNames) THEN "email"
                                                                     ELSE "publish"
    /\ UNCHANGED << ultra, schema, txn, clock, YOUTUBE_API_KEY, X_BEARER_TOKEN, INCAA_HIST_CSV,
                    trailer_daily, x_daily, conn, runs, movies, cat_today, today,
                    today_str, i, stats, platform, y, xm, xy, change, enriched, pages,
                    email_sent, download, call, calls, ref, start,
                    last_trailer, last_x >>

\* A catalog whose only title is released after the window: the loop has no turn.
LoadCatalogNoTitle ==
    LoadCatalogOf({ Download("ok", << CatalogRow(TitleA, Some(clock + FUTURE_DAYS + 1), YT_URL) >>,
                             TRUE, TRUE, TRUE, TRUE) })

NextPublish ==
    \/ StartOnce
    \/ LoadCatalogNoTitle
    \/ LoadAux
    \/ TakeToday
    \/ Assemble
    \/ PublishFile
    \/ SendEmail
    \/ Exit

SpecPublish == Init /\ [][NextPublish]_vars

-----------------------------------------------------------------------------
(* One run of main() with no title in the window and with every answer of the  *)
(* two Ultracine endpoints.                                                    *)

\* An element of the list an endpoint sends: an object with a title, with a
\* blank title, without one, or something that is not an object.
UltraElements ==
    { [dict |-> TRUE, title |-> Some(TitleA)], [dict |-> TRUE, title |-> Some(<< " " >>)],
      [dict |-> TRUE, title |-> None], [dict |-> FALSE, title |-> None] }

\* What one endpoint answers: the request or raise_for_status raises, the text
\* holds no JSON (or an empty value), the JSON holds no list of items, or it
\* holds a list.
UltraAnswers ==
    { [kind |-> "raise", elements |-> << >>], [kind |-> "no_json", elements |-> << >>],
      [kind |-> "no_list", elements |-> << >>] }
    \cup { [kind |-> "list", elements |-> e] : e \in SeqsUpTo(UltraElements, 2) \ { << >> } }

\* The loop "for it in items" (main.py:623-645): an element that is no dict or
\* has no truthy title is skipped; title is str(t).strip().  The other fields
\* (key, publico_semana, acumulado) come from functions that do not raise.
RECURSIVE UltraOut(_, _)
UltraOut(elements, url) ==
    IF elements = << >> THEN << >>
    ELSE LET it == Head(elements)
         IN  IF it.dict /\ it.title # None /\ Get(it.title) # << >>
             THEN << [title |-> strip(Get(it.title)), source_url |-> url] >>
                      \o UltraOut(Tail(elements), url)
             ELSE UltraOut(Tail(elements), url)

\* last_err after a turn of the loop that returned nothing (main.py:604, 619, 650, 652)
UltraErr(ans, url) ==
    [url |-> url,
     msg |-> CASE ans.kind = "raise" -> "Ultracine error"
               [] ans.kind = "no_json" -> "respuesta sin JSON parseable"
               [] ans.kind = "no_list" -> "JSON sin lista de items"
               [] OTHER -> "lista vacia tras normalizar"]

\* The loop "for url in urls" (main.py:598-654), from url number j on.
RECURSIVE UltraLoop(_, _, _)
UltraLoop(answers, j, last_err) ==
    IF j > Len(answers)
    THEN [items |-> << >>, err |-> last_err, queried |-> Len(answers), raised |-> FALSE,
          answers |-> answers]
    ELSE LET out == IF answers[j].kind = "list" THEN UltraOut(answers[j].elements, j)
                                               ELSE << >>
         IN  IF out # << >>
             THEN [items |-> out, err |-> None, queried |-> j, raised |-> FALSE,
                   answers |-> answers]
             ELSE UltraLoop(answers, j + 1, Some(UltraErr(answers[j], j)))

\* Mutant of fetch_ultracine_top: no try/except around the request.
fetch_ultracine_top_uncaught(answers) ==
    IF answers[1].kind = "raise"
    THEN [items |-> << >>, err |-> None, queried |-> 1, raised |-> TRUE, answers |-> answers]
    ELSE UltraLoop(answers, 1, None)

\* fetch_ultracine_top, main.py:588-654 (ultracine_aux.py:52-123 is the same
\* function): answers[j] is what endpoint j would send.
fetch_ultracine_top(answers) == UltraLoop(answers, 1, None)

\* main.py:946-949: load_incaa_historico_manual(INCAA_HIST_CSV), then
\* fetch_ultracine_top()
LoadAuxUltra ==
    /\ pc = "load_incaa"
    /\ IF INCAA_HIST_CSV = None
       THEN pc' = "raised" /\ UNCHANGED ultra
       ELSE \E a1 \in UltraAnswers, a2 \in UltraAnswers :
              LET u == fetch_ultracine_top(<< a1, a2 >>)
              IN  /\ ultra' = u
                  /\ pc' = IF u.raised THEN "raised" ELSE "today"
    /\ UNCHANGED << gh, schema, txn, clock, YOUTUBE_API_KEY, X_BEARER_TOKEN, INCAA_HIST_CSV,
                    trailer_daily, x_daily, conn, runs, movies, cat_today, today,
                    today_str, i, stats, platform, y, xm, xy, change, enriched, pages,
                    published, email_sent, download, call, calls, ref, start,
                    last_trailer, last_x >>

NextUltra ==
    \/ StartOnce
    \/ LoadCatalogNoTitle
    \/ LoadAuxUltra
    \/ TakeToday
    \/ Assemble
    \/ Publish
    \/ SendEmail
    \/ Exit

SpecUltra == Init /\ [][NextUltra]_vars

-----------------------------------------------------------------------------
(* One run of main() at the grain of the sqlite statements: cur.execute opens   *)
(* a transaction, conn.commit() makes it durable, and the process may be killed *)
(* between any two steps; the tables are what the database file holds.          *)

\* Mutant of AfterExecute: upsert returns without conn.commit().
AfterExecuteNoCommit(table) == IF table = "trailer_daily" THEN "trailer_y" ELSE "x_y"

\* Where the run is after the cur.execute of an upsert (main.py:684-688,
\* main.py:705-709): at the conn.commit() of the same function.
AfterExecute(table) == IF table = "trailer_daily" THEN "trailer_commit" ELSE "x_commit"

\* main.py:957-982 up to the cur.execute of upsert_trailer_daily (main.py:684)
ExecuteTrailer ==
    /\ pc = "trailer"
    /\ LET m == movies[i]
           url == m.trailer_url
       IN  \E resp \in TrailerResponses(url, RunYTResponses, RunVimeoResponses) :
             LET sp == TrailerBranch(url, resp)
                 st == sp[1]
             IN  /\ stats' = st
                 /\ platform' = sp[2]
                 /\ call' = [NoCall EXCEPT !.title_key = Some(m.title_key),
                                            !.trailer = TrailerCallKind(url, resp),
                                            !.trailer_resp = resp,
                                            !.trailer_requests = TrailerRequestCount(url)]
                 /\ IF Bindable(st.err)
                    THEN /\ txn' = Some([table |-> "trailer_daily",
                                         row |-> TrailerRow(Get(today_str), m.title_key, url,
                                                            PlatformLower(sp[2]), st.views,
                                                            st.likes, st.comments, st.err)])
                         /\ pc' = AfterExecute("trailer_daily")
                    ELSE /\ pc' = "raised"
                         /\ UNCHANGED txn
    /\ UNCHANGED << ultra, gh, schema, clock, YOUTUBE_API_KEY, X_BEARER_TOKEN, INCAA_HIST_CSV,
                    trailer_daily, x_daily, conn, runs, movies, cat_today, today,
                    today_str, i, y, xm, xy, change, enriched, pages, published,
                    email_sent, download, calls, ref, start, last_trailer, last_x >>

\* conn.commit() of upsert_trailer_daily, main.py:689
CommitTrailer ==
    /\ pc = "trailer_commit"
    /\ txn # None
    /\ trailer_daily' = InsertOrReplaceTrailer(trailer_daily, Get(txn).row)
    /\ last_trailer' = Latest(last_trailer, TrailerKey(Get(txn).row), Get(txn).row)
    /\ txn' = None
    /\ pc' = "trailer_y"
    /\ UNCHANGED << ultra, gh, schema, clock, YOUTUBE_API_KEY, X_BEARER_TOKEN, INCAA_HIST_CSV, x_daily,
                    conn, runs, movies, cat_today, today, today_str, i, stats, platform,
                    y, xm, xy, change, enriched, pages, published, email_sent, download,
                    call, calls, ref, start, last_x >>

\* main.py:995-996 up to the cur.execute of upsert_x_daily (main.py:705)
ExecuteX ==
    /\ pc = "x"
    /\ LET m == movies[i]
       IN  \E resp \in XResponsesOf(RunXResponses) :
             LET x == x_metrics(m.title, resp)
             IN  /\ xm' = x
                 /\ call' = [call EXCEPT !.x = XCallKind(resp),
                                          !.x_resp = resp,
                                          !.x_requests = XRequestCount(m.title),
                                          !.x_called = TRUE]
                 /\ IF Bindable(x.err)
                    THEN /\ txn' = Some([table |-> "x_daily",
                                         row |-> XRow(Get(today_str), m.title_key, m.title,
                                                      x.posts_7d, x.eng_7d, x.err)])
                         /\ pc' = AfterExecute("x_daily")
                    ELSE /\ pc' = "raised"
                         /\ UNCHANGED txn
    /\ UNCHANGED << ultra, gh, schema, clock, YOUTUBE_API_KEY, X_BEARER_TOKEN, INCAA_HIST_CSV,
                    trailer_daily, x_daily, conn, runs, movies, cat_today, today,
                    today_str, i, stats, platform, y, xy, change, enriched, pages,
                    published, email_sent, download, calls, ref, start, last_trailer,
                    last_x >>

\* conn.commit() of upsert_x_daily, main.py:710
CommitX ==
    /\ pc = "x_commit"
    /\ txn # None
    /\ x_daily' = InsertOrReplaceX(x_daily, Get(txn).row)
    /\ last_x' = Latest(last_x, XKey(Get(txn).row), Get(txn).row)
    /\ txn' = None
    /\ pc' = "x_y"
    /\ UNCHANGED << ultra, gh, schema, clock, YOUTUBE_API_KEY, X_BEARER_TOKEN, INCAA_HIST_CSV,
                    trailer_daily, conn, runs, movies, cat_today, today, today_str, i,
                    stats, platform, y, xm, xy, change, enriched, pages, published,
                    email_sent, download, call, calls, ref, start, last_trailer >>

\* The process is killed (or the machine stops) at any point of the run: the
\* finally clause does not run, the locals are gone, and sqlite rolls the
\* uncommitted transaction back when the file is opened again.
Interrupt ==
    /\ pc \notin { "idle", "killed" }
    /\ pc' = "killed"
    /\ conn' = "closed"
    /\ txn' = None
    /\ LocalsReset
    /\ UNCHANGED << ultra, gh, schema, clock, YOUTUBE_API_KEY, X_BEARER_TOKEN, INCAA_HIST_CSV,
                    trailer_daily, x_daily, runs, start, last_trailer, last_x >>

NextCommit ==
    \/ StartOnce
    \/ LoadCatalog
    \/ LoadAux
    \/ TakeToday
    \/ ExecuteTrailer
    \/ CommitTrailer
    \/ TrailerYesterday
    \/ ExecuteX
    \/ CommitX
    \/ XYesterday
    \/ Assemble
    \/ Publish
    \/ SendEmail
    \/ Exit
    \/ Interrupt

SpecCommit == Init /\ [][NextCommit]_vars

-----------------------------------------------------------------------------
(* Properties *)

\* The primary key and the row the loop body has just upserted for movies[i].
CurrentTrailerKey == << Get(today_str), movies[i].title_key, movies[i].trailer_url >>
CurrentXKey == << Get(today_str), movies[i].title_key >>

\* C1: after any sequence of upserts, within one run or over repeated runs, a
\* table holds no row twice and at most one row per primary key, and its rows
\* are exactly the rows of the latest upsert of each key; so an upsert that
\* repeats the key and the payload of the latest one leaves the table as it was.
C1_OneRowPerKeyLatestPayload ==
    /\ \A r \in DOMAIN trailer_daily : trailer_daily[r] = 1
    /\ \A r, q \in DOMAIN trailer_daily : TrailerKey(r) = TrailerKey(q) => r = q
    /\ DOMAIN trailer_daily = { last_trailer[k] : k \in DOMAIN last_trailer }
    /\ \A k \in DOMAIN last_trailer : TrailerKey(last_trailer[k]) = k
    /\ \A r \in DOMAIN x_daily : x_daily[r] = 1
    /\ \A r, q \in DOMAIN x_daily : XKey(r) = XKey(q) => r = q
    /\ DOMAIN x_daily = { last_x[k] : k \in DOMAIN last_x }
    /\ \A k \in DOMAIN last_x : XKey(last_x[k]) = k

\* C1, witness: a second run has upserted the key of a row that was there when it
\* started, with other values: the old row is gone, the new one is there.
C1_Witness ==
    /\ pc = "trailer_y"
    /\ runs = 2
    /\ \E old \in DOMAIN start[1] :
         /\ TrailerKey(old) = CurrentTrailerKey
         /\ old.views # stats.views
         /\ old \notin DOMAIN trailer_daily
    /\ \E r \in DOMAIN trailer_daily :
         TrailerKey(r) = CurrentTrailerKey /\ r.views = stats.views

\* C2: the row a run's 24 h deltas are taken against is the row dated one day
\* before today_str, the date the run writes its own rows under; it is never the
\* row the run has just written, also when the date changes during the run.
C2_ReferenceIsDayBeforeTodayStr ==
    /\ ref.trailer # None => ref.trailer = Some(isoformat(Get(today) - 1))
    /\ ref.x # None => ref.x = Some(isoformat(Get(today) - 1))

\* Both operands of a delta are there: today's value, a previous-day row, its value.
BothPresent(now, yd, f) == now # None /\ yd # None /\ Get(yd)[f] # None

DeltaAsClaimed(now, yd, f, d) ==
    /\ BothPresent(now, yd, f) => d = Some(Get(now) - Get(Get(yd)[f]))
    /\ ~BothPresent(now, yd, f) => d = None
    /\ d = Some(0) => BothPresent(now, yd, f) /\ Get(now) = Get(Get(yd)[f])

\* C3: each of the five 24 h deltas is today's value minus the reference value
\* when both are there (negative when the metric dropped), and absent when
\* today's value, the reference value or the previous-day row is missing; a
\* delta of 0 appears only when both values are there and equal.
C3_DeltaSignedOrAbsent ==
    /\ pc \in { "engine_x", "engine_done" } =>
         /\ DeltaAsClaimed(stats.views, y, "views", change.views)
         /\ DeltaAsClaimed(stats.likes, y, "likes", change.likes)
         /\ DeltaAsClaimed(stats.comments, y, "comments", change.comments)
    /\ pc = "engine_done" =>
         /\ DeltaAsClaimed(xm.posts_7d, xy, "posts_7d", change.x_posts)
         /\ DeltaAsClaimed(xm.eng_7d, xy, "eng_7d", change.x_eng)

\* C3, witness: a drop, an absent reference value, two equal values, a rise and
\* no previous-day row, in one title.
C3_Witness ==
    /\ pc = "engine_done"
    /\ y # None /\ Get(y).likes = None /\ stats.likes # None
    /\ change.views = Some(-1)
    /\ change.likes = None
    /\ change.comments = Some(0)
    /\ xy = None /\ xm.posts_7d # None
    /\ change.x_posts = None

AtLeast(d, n) == d # None /\ Get(d) >= n

\* C4: has_alert is true exactly when one of the five deltas is there and at
\* least its threshold (views 2000, likes 150, comments 50, X posts 30, X
\* engagement 150), and exactly when the reason list is not empty.
C4_AlertIffThresholdMet ==
    pc = "engine_done" =>
        LET r == enriched[1]
        IN  /\ r.has_alert <=>
                 \/ AtLeast(r.views_change_24h, 2000)
                 \/ AtLeast(r.likes_change_24h, 150)
                 \/ AtLeast(r.comments_change_24h, 50)
                 \/ AtLeast(r.x_posts_change_24h, 30)
                 \/ AtLeast(r.x_eng_change_24h, 150)
            /\ r.has_alert <=> r.alert_reason # None
            /\ r.alert_reason # None => Len(Get(r.alert_reason)) > 0

\* C4, witness: the views delta is exactly 2000, the likes delta one below its
\* threshold, the others absent or negative: the alert is raised, for one reason.
C4_Witness ==
    /\ pc = "engine_done"
    /\ enriched[1].views_change_24h = Some(2000)
    /\ enriched[1].likes_change_24h = Some(149)
    /\ enriched[1].comments_change_24h = None
    /\ enriched[1].x_posts_change_24h = Some(-1)
    /\ enriched[1].x_eng_change_24h = Some(149)
    /\ enriched[1].has_alert
    /\ Len(Get(enriched[1].alert_reason)) = 1

\* C5: a metric adapter that fails for one title never aborts the run: main()
\* does not raise inside the loop over the titles after a failed fetch.
C5_AdapterFailureNeverAborts ==
    ~ ( /\ pc = "raised"
        /\ today_str # None
        /\ i <= Len(movies)
        /\ (call.trailer = "failed" \/ call.x = "failed") )

\* C6: a run whose catalog has loaded stops only after it has assembled the
\* report and begun to publish: main() raises for nothing but the catalog before.
C6_OnlyCatalogFailureStops ==
    pc = "raised" => (cat_today = None \/ pages # None)

Unloadable(dl) ==
    \/ dl.kind = "raise"
    \/ dl.rows = << >>
    \/ ~dl.has_header
    \/ ~dl.title_col
    \/ ~dl.date_col
    \/ ~dl.trailer_col

\* C7: when the catalog cannot be loaded (the download raises, no row, no
\* header, no title, date or trailer column), main() raises before any upsert:
\* both tables are as they were when the process started.
C7_CatalogFailureWritesNothing ==
    (download # None /\ Unloadable(Get(download))) =>
        /\ pc = "raised"
        /\ trailer_daily = start[1]
        /\ x_daily = start[2]

\* C7, witness: the catalog failed to load in a run that found rows of an earlier run.
C7_Witness ==
    /\ download # None
    /\ Unloadable(Get(download))
    /\ pc = "raised"
    /\ start[1] # EmptyBag
    /\ start[2] # EmptyBag
    /\ trailer_daily = start[1]

\* C8: when the credential of a metric source is missing, the row written for
\* the title and day has absent values and a non-null "not configured" tag.
C8_UnconfiguredIsTagged ==
    /\ (pc = "trailer_y" /\ call.trailer = "unconfigured") =>
         \A r \in DOMAIN trailer_daily :
            TrailerKey(r) = CurrentTrailerKey =>
               r.err # None /\ r.views = None /\ r.likes = None /\ r.comments = None
    /\ (pc = "x_y" /\ call.x = "unconfigured") =>
         \A r \in DOMAIN x_daily :
            XKey(r) = CurrentXKey => r.err # None /\ r.posts_7d = None /\ r.eng_7d = None

\* C9: when a trailer or X fetch fails (network error, error answer, malformed
\* answer), the row written for the title and day carries a non-null error tag.
C9_FailedFetchIsTagged ==
    /\ (pc = "trailer_y" /\ call.trailer = "failed") =>
         \A r \in DOMAIN trailer_daily : TrailerKey(r) = CurrentTrailerKey => r.err # None
    /\ (pc = "x_y" /\ call.x = "failed") =>
         \A r \in DOMAIN x_daily : XKey(r) = CurrentXKey => r.err # None

\* A catalog row with a title and a parsed release date.
Eligible(r) == strip(r.title) # << >> /\ r.date # None

\* The row is an entry of the active set: its title, release date and trailer.
Listed(r) ==
    \E j \in 1..Len(movies) :
        /\ movies[j].title = strip(r.title)
        /\ movies[j].release_date = Get(r.date)
        /\ movies[j].trailer_url = r.trailer_url

Within30(d, t) == t - 30 <= d /\ d <= t + 30

\* An earlier row of the catalog, inside the window, has the title_key of row j.
KeyTakenBefore(rows, j, t) ==
    \E k \in 1..(j - 1) :
        /\ Eligible(rows[k])
        /\ Within30(Get(rows[k].date), t)
        /\ norm_title_key(strip(rows[k].title)) = norm_title_key(strip(rows[j].title))

\* C10 as stated: a catalog row with a title and a release date d is in the
\* active set if and only if today - 30 <= d <= today + 30.
C10_RowActiveIffInWindow ==
    (pc = "load_incaa" /\ download # None) =>
        LET rows == Get(download).rows
            t == Get(cat_today)
        IN  \A j \in 1..Len(rows) :
               Eligible(rows[j]) => (Listed(rows[j]) <=> Within30(Get(rows[j].date), t))

\* C10, amended: a catalog row with a title and a release date d, whose
\* title_key no earlier in-window row of the catalog has, is in the active set if
\* and only if today - 30 <= d <= today + 30, both ends included.
C10_FirstRowOfKeyActiveIffInWindow ==
    (pc = "load_incaa" /\ download # None) =>
        LET rows == Get(download).rows
            t == Get(cat_today)
        IN  \A j \in 1..Len(rows) :
               (Eligible(rows[j]) /\ ~KeyTakenBefore(rows, j, t)) =>
                   (Listed(rows[j]) <=> Within30(Get(rows[j].date), t))

\* C10, witness: of two titles, the one released today + 30 is in the active set
\* and the one released today - 31 is not.
C10_Witness ==
    /\ pc = "load_incaa"
    /\ download # None
    /\ Len(Get(download).rows) = 2
    /\ Get(download).rows[1].date = Some(Get(cat_today) + 30)
    /\ Get(download).rows[2].date = Some(Get(cat_today) - 31)
    /\ Eligible(Get(download).rows[1])
    /\ Eligible(Get(download).rows[2])
    /\ Listed(Get(download).rows[1])
    /\ ~Listed(Get(download).rows[2])
    /\ Len(movies) = 1

\* The title_keys of the catalog rows that pass the window filter of the run.
WindowKeys ==
    { norm_title_key(strip(Get(download).rows[j].title)) :
        j \in { n \in 1..Len(Get(download).rows) :
                  /\ Eligible(Get(download).rows[n])
                  /\ Within30(Get(Get(download).rows[n].date), Get(cat_today)) } }

\* The title_keys the run has called an adapter for, stored a row for, reported.
CalledKeys ==
    { Get(calls[j].title_key) : j \in 1..Len(calls) }
    \cup (IF call.title_key # None THEN { Get(call.title_key) } ELSE {})
TrailerRowsOf(k) == { r \in DOMAIN trailer_daily : r.title_key = k }
XRowsOf(k) == { r \in DOMAIN x_daily : r.title_key = k }
StoredKeys ==
    { r.title_key : r \in DOMAIN trailer_daily } \cup { r.title_key : r \in DOMAIN x_daily }
ReportedKeys == { enriched[j].title_key : j \in 1..Len(enriched) }

\* The loop over the titles has gone through every title.
LoopDone == today_str # None /\ i = Len(movies) + 1

TimesOn(rows, m) == Cardinality({ n \in 1..Len(rows) : rows[n] = m })

\* C12: when the pages are assembled, every title of the active set has one
\* report row, which is on exactly one of the two pages: the upcoming one when
\* release_date > today, the released one when release_date <= today (so also
\* when it is released today); the counts of the index are the lengths of the
\* lists and total = upcoming + released.
C12_PagesPartitionActiveSet ==
    pages # None =>
        LET pg == Get(pages)
            t == Get(today)
        IN  /\ Len(enriched) = Len(movies)
            /\ \A j \in 1..Len(movies) : enriched[j].title_key = movies[j].title_key
            /\ \A j \in 1..Len(enriched) :
                  LET m == enriched[j]
                  IN  /\ TimesOn(pg.upcoming, m) + TimesOn(pg.released, m) = 1
                      /\ TimesOn(pg.upcoming, m) = 1 <=> m.release_date > t
                      /\ TimesOn(pg.released, m) = 1 <=> m.release_date <= t
            /\ \A n \in 1..Len(pg.upcoming) : TimesOn(enriched, pg.upcoming[n]) = 1
            /\ \A n \in 1..Len(pg.released) : TimesOn(enriched, pg.released[n]) = 1
            /\ pg.counts[1] = Len(enriched)
            /\ pg.counts[2] = Len(pg.upcoming)
            /\ pg.counts[3] = Len(pg.released)
            /\ pg.counts[1] = pg.counts[2] + pg.counts[3]

\* C12, witness: two titles, the one released today on the released page, the
\* one released tomorrow on the upcoming page.
C12_Witness ==
    /\ pages # None
    /\ Len(enriched) = 2
    /\ Len(Get(pages).released) = 1
    /\ Get(pages).released[1].release_date = Get(today)
    /\ Len(Get(pages).upcoming) = 1
    /\ Get(pages).upcoming[1].release_date = Get(today) + 1
    /\ Get(pages).counts[1] = 2

\* C13: every step of a run creates or replaces only rows dated the calendar
\* date current at the write, and leaves every row dated earlier than the
\* current date as it is, also when the run started before midnight.
C13_OnlyCurrentDateRowsWritten ==
    [][ /\ \A r \in DOMAIN trailer_daily' :
              r \notin DOMAIN trailer_daily => r.date = isoformat(clock')
        /\ \A r \in DOMAIN x_daily' :
              r \notin DOMAIN x_daily => r.date = isoformat(clock')
        /\ \A r \in DOMAIN trailer_daily :
              r.date.iso < clock => r \in DOMAIN trailer_daily'
        /\ \A r \in DOMAIN x_daily :
              r.date.iso < clock => r \in DOMAIN x_daily' ]_vars

\* No row of the title_key was in the tables when the process started.
NoPriorRows(k) ==
    /\ \A r \in DOMAIN start[1] : r.title_key # k
    /\ \A r \in DOMAIN start[2] : r.title_key # k

\* The values the trailer adapter got in the answer resp (none without an answer).
AnswerValues(resp) ==
    IF resp.kind = "item" /\ resp.statistics # None
    THEN << Get(resp.statistics).viewCount, Get(resp.statistics).likeCount,
            Get(resp.statistics).commentCount >>
    ELSE IF resp.kind = "page" THEN << None, resp.likes, resp.comments >>
    ELSE << None, None, None >>

AllDash(c) ==
    /\ c.views_change = << "--" >>
    /\ c.likes_change = << "--" >>
    /\ c.comments_change = << "--" >>
    /\ c.x_posts_change = << "--" >>
    /\ c.x_eng_change = << "--" >>

\* C14: for a title without rows before the run and released today, the run stores
\* today's row with the values the adapter got, reports the five 24 h deltas as
\* absent and has_alert as false, however large the values, and the released page
\* shows each value as a number with "--" for its delta.
C14_FirstSnapshotNoDeltaNoAlert ==
    \A j \in 1..Len(enriched) :
        LET r == enriched[j]
        IN  (r.release_date = Get(today) /\ NoPriorRows(r.title_key)) =>
              /\ \E w \in DOMAIN trailer_daily :
                    /\ TrailerKey(w) = << Get(today_str), r.title_key, r.trailer_url >>
                    /\ << w.views, w.likes, w.comments >> = AnswerValues(calls[j].trailer_resp)
              /\ << r.views, r.likes, r.comments >> = AnswerValues(calls[j].trailer_resp)
              /\ r.views_change_24h = None
              /\ r.likes_change_24h = None
              /\ r.comments_change_24h = None
              /\ r.x_posts_change_24h = None
              /\ r.x_eng_change_24h = None
              /\ ~r.has_alert
              /\ pages # None =>
                    \E n \in 1..Len(Get(pages).estrenadas_html) :
                        LET c == Get(pages).estrenadas_html[n]
                        IN  /\ c.title = r.title
                            /\ c.views = fmt_int(r.views)
                            /\ c.badge = "OK"
                            /\ AllDash(c)

\* The values x_metrics got in the answer resp (none without tweets).
XAnswerValues(resp) ==
    IF resp.kind = "data"
    THEN << Some(Len(resp.tweets)), Some(SumEngagement(resp.tweets)) >>
    ELSE << None, None >>

\* The value of column f in the rows, none when there is no row or no value.
StoredValue(rows, f) ==
    IF rows = {} THEN None ELSE (CHOOSE r \in rows : TRUE)[f]

\* A cell shows the value v: the dash when v is absent, its digits otherwise.
Shows(cell, v) ==
    /\ (cell = << "--" >>) <=> (v = None)
    /\ v # None => cell = fmt_int(v)

\* The delta of today's value now against the previous day's value old.
DeltaOf(now, old) ==
    IF now = None \/ old = None THEN None ELSE Some(Get(now) - Get(old))

\* C15: on the pages of a run, each value cell of a title shows the value this
\* run's fetch returned, the dash when it returned none, whatever rows earlier
\* runs stored; each delta cell shows this run's value minus the value of the
\* row dated the day before the run's today, the dash when either is absent.
C15_CellsShowThisRunsValues ==
    pages # None =>
        \A j \in 1..Len(enriched) :
            LET r == enriched[j]
                got == AnswerValues(calls[j].trailer_resp)
                xgot == XAnswerValues(calls[j].x_resp)
                day == isoformat(Get(today) - 1)
                prev == { w \in DOMAIN trailer_daily :
                            TrailerKey(w) = << day, r.title_key, r.trailer_url >> }
                xprev == { w \in DOMAIN x_daily : XKey(w) = << day, r.title_key >> }
                html == Get(pages).proximos_html \o Get(pages).estrenadas_html
            IN  \E n \in 1..Len(html) :
                    LET c == html[n]
                    IN  /\ c.title = r.title
                        /\ Shows(c.views, got[1])
                        /\ Shows(c.likes, got[2])
                        /\ Shows(c.comments, got[3])
                        /\ Shows(c.x_posts, xgot[1])
                        /\ Shows(c.x_eng, xgot[2])
                        /\ Shows(c.views_change, DeltaOf(got[1], StoredValue(prev, "views")))
                        /\ Shows(c.likes_change, DeltaOf(got[2], StoredValue(prev, "likes")))
                        /\ Shows(c.comments_change,
                                 DeltaOf(got[3], StoredValue(prev, "comments")))
                        /\ Shows(c.x_posts_change,
                                 DeltaOf(xgot[1], StoredValue(xprev, "posts_7d")))
                        /\ Shows(c.x_eng_change,
                                 DeltaOf(xgot[2], StoredValue(xprev, "eng_7d")))

\* The keys of the per-title record that hold the catalog entry, the values,
\* the 24 h deltas and the alert.
DailyFields ==
    { "title", "title_key", "release_date", "trailer_url", "trailer_platform",
      "views", "likes", "comments", "views_change_24h", "likes_change_24h",
      "comments_change_24h", "x_posts_7d", "x_eng_7d", "x_posts_change_24h",
      "x_eng_change_24h", "has_alert", "alert_reason" }

\* C16: the per-title record of a run also holds, for each of the five metrics,
\* a delta since baseline: today's value minus the value of the row dated
\* release_date - 30 days, absent when that row or either value is absent.
C16_DeltaSinceBaselineInRecord ==
    \A j \in 1..Len(enriched) :
        LET r == enriched[j]
            day == isoformat(r.release_date - 30)
            base == { w \in DOMAIN trailer_daily :
                        TrailerKey(w) = << day, r.title_key, r.trailer_url >> }
            xbase == { w \in DOMAIN x_daily : XKey(w) = << day, r.title_key >> }
            others == DOMAIN r \ DailyFields
        IN  /\ \E f \in others : r[f] = DeltaOf(r.views, StoredValue(base, "views"))
            /\ \E f \in others : r[f] = DeltaOf(r.likes, StoredValue(base, "likes"))
            /\ \E f \in others : r[f] = DeltaOf(r.comments, StoredValue(base, "comments"))
            /\ \E f \in others : r[f] = DeltaOf(r.x_posts_7d, StoredValue(xbase, "posts_7d"))
            /\ \E f \in others : r[f] = DeltaOf(r.x_eng_7d, StoredValue(xbase, "eng_7d"))

\* The labels of the five rules in the order views, likes, comments, X posts,
\* X engagement.
RuleOrder ==
    << "Suba fuerte de vistas (24 h)", "Suba fuerte de me gusta (24 h)",
       "Suba fuerte de comentarios (24 h)", "Mas conversacion en X (24 h)",
       "Mas interaccion en X (24 h)" >>

RuleRank(label) == CHOOSE n \in 1..Len(RuleOrder) : RuleOrder[n] = label

\* The reasons of the report row r, none when alert_reason is None.
ReasonsOf(r) == IF r.alert_reason = None THEN << >> ELSE Get(r.alert_reason)

\* The rules the deltas of r meet, in the order of RuleOrder, with their deltas.
RulesMet(r) ==
    LET rules == << [label |-> RuleOrder[1], d |-> r.views_change_24h, n |-> 2000],
                    [label |-> RuleOrder[2], d |-> r.likes_change_24h, n |-> 150],
                    [label |-> RuleOrder[3], d |-> r.comments_change_24h, n |-> 50],
                    [label |-> RuleOrder[4], d |-> r.x_posts_change_24h, n |-> 30],
                    [label |-> RuleOrder[5], d |-> r.x_eng_change_24h, n |-> 150] >>
        Met(e) == AtLeast(e.d, e.n)
        met == SelectSeq(rules, Met)
    IN  [k \in 1..Len(met) |-> [label |-> met[k].label, delta |-> Get(met[k].d)]]

\* C17: the reasons of a title are listed in the order views, likes, comments,
\* X posts, X engagement, each label at most once, and they are a function of
\* the five deltas: the rules the deltas meet, in that order, with their deltas.
C17_ReasonsInRuleOrder ==
    pc = "engine_done" =>
        LET rs == ReasonsOf(enriched[1])
        IN  /\ \A a \in 1..Len(rs) : \E n \in 1..Len(RuleOrder) : RuleOrder[n] = rs[a].label
            /\ \A a, b \in 1..Len(rs) :
                  a < b => RuleRank(rs[a].label) < RuleRank(rs[b].label)
            /\ rs = RulesMet(enriched[1])

\* C17, witness: the views, comments and X engagement rules are met, the two
\* rules between them are not: three reasons, in that order.
C17_Witness ==
    /\ pc = "engine_done"
    /\ Len(ReasonsOf(enriched[1])) = 3
    /\ ReasonsOf(enriched[1])[1].label = RuleOrder[1]
    /\ ReasonsOf(enriched[1])[2].label = RuleOrder[3]
    /\ ReasonsOf(enriched[1])[3].label = RuleOrder[5]
    /\ enriched[1].likes_change_24h = None
    /\ enriched[1].x_posts_change_24h = Some(29)

\* The passes of the loop body of the run so far, each with its adapter calls:
\* the passes that have ended and the one under way.
Passes ==
    IF /\ call.title_key # None
       /\ Len(calls) < i
       /\ i <= Len(movies)
       /\ call.title_key = Some(movies[i].title_key)
    THEN Append(calls, call)
    ELSE calls

TrailerColumns ==
    { "date", "title_key", "trailer_url", "platform", "views", "likes", "comments", "err" }
XColumns == { "date", "title_key", "title", "posts_7d", "eng_7d", "err" }

\* C19: an upsert is committed before the run reads the store again: when the
\* previous-day lookup is about to run no statement is uncommitted and the row
\* of the title is in the table with the values fetched; a statement is
\* uncommitted only between the cur.execute and the conn.commit() of one upsert;
\* and at any point, also after the run was killed, a table holds for each key
\* the whole row of its latest committed upsert or no row.
C19_CommittedBeforeNextRead ==
    /\ pc = "trailer_y" =>
          /\ txn = None
          /\ \E r \in DOMAIN trailer_daily :
                /\ TrailerKey(r) = CurrentTrailerKey
                /\ << r.views, r.likes, r.comments, r.err >> =
                      << stats.views, stats.likes, stats.comments, stats.err >>
    /\ pc = "x_y" =>
          /\ txn = None
          /\ \E r \in DOMAIN x_daily :
                /\ XKey(r) = CurrentXKey
                /\ << r.posts_7d, r.eng_7d, r.err >> = << xm.posts_7d, xm.eng_7d, xm.err >>
    /\ txn # None => pc \in { "trailer_commit", "x_commit" }
    /\ DOMAIN trailer_daily = { last_trailer[k] : k \in DOMAIN last_trailer }
    /\ DOMAIN x_daily = { last_x[k] : k \in DOMAIN last_x }
    /\ \A r \in DOMAIN trailer_daily : DOMAIN r = TrailerColumns /\ trailer_daily[r] = 1
    /\ \A r \in DOMAIN x_daily : DOMAIN r = XColumns /\ x_daily[r] = 1

\* C19, witness: the run was killed after the trailer row of a title was
\* committed and before its X row was: the first is whole, the second is not there.
C19_Witness ==
    /\ pc = "killed"
    /\ Cardinality(DOMAIN trailer_daily) = 1
    /\ \E r \in DOMAIN trailer_daily : r.views # None /\ DOMAIN r = TrailerColumns
    /\ x_daily = EmptyBag
    /\ txn = None

\* The title_key load_catalog gives a catalog row.
RowKey(r) == norm_title_key(strip(r.title))

\* The rows of the catalog, by position, that can enter the active set with key k.
RowsOfKey(rows, t, k) ==
    { j \in 1..Len(rows) :
        Eligible(rows[j]) /\ Within30(Get(rows[j].date), t) /\ RowKey(rows[j]) = k }

FirstOf(S) == CHOOSE j \in S : \A h \in S : j <= h
LastOf(S) == CHOOSE j \in S : \A h \in S : h <= j

EntriesOfKey(k) == { j \in 1..Len(movies) : movies[j].title_key = k }

\* The keys whose X row this run has written so far, one per completed upsert.
XWrittenKeys ==
    [ j \in 1..(Len(calls) + (IF pc = "x_y" THEN 1 ELSE 0)) |->
        IF j <= Len(calls) THEN calls[j].title_key ELSE call.title_key ]

\* The active set has one entry per title_key that a row of the catalog can
\* enter it with, and the run has written one x_daily row per X upsert.
OneEntryOneXRowPerKey ==
    LET rows == Get(download).rows
        t == Get(cat_today)
    IN  /\ \A j \in 1..Len(rows) :
              (Eligible(rows[j]) /\ Within30(Get(rows[j].date), t)) =>
                  Cardinality(EntriesOfKey(RowKey(rows[j]))) = 1
        /\ \A a, b \in 1..Len(movies) :
              movies[a].title_key = movies[b].title_key => a = b
        /\ \A a, b \in DOMAIN XWrittenKeys :
              XWrittenKeys[a] = XWrittenKeys[b] => a = b
        /\ Cardinality(DOMAIN x_daily) = Len(XWrittenKeys)
        /\ \A r \in DOMAIN x_daily :
              x_daily[r] = 1 /\ \E j \in 1..Len(movies) : movies[j].title_key = r.title_key

\* The entry of the active set with the key of row j is made from row j.
EntryFrom(rows, j) ==
    \E e \in EntriesOfKey(RowKey(rows[j])) : movies[e] = Movie(rows[j], RowKey(rows[j]))

\* C20 as stated: the active set has at most one entry per title_key; of
\* several catalog rows with one title_key exactly one title results, and it is
\* the later row's (a later row updates the title); so the run writes at most
\* one x_daily row per (date, title_key).
C20_OneEntryPerKeyLaterRowUpdates ==
    cat_today # None =>
        /\ OneEntryOneXRowPerKey
        /\ LET rows == Get(download).rows
           IN  \A j \in 1..Len(rows) :
                  LET S == RowsOfKey(rows, Get(cat_today), RowKey(rows[j]))
                  IN  S # {} => EntryFrom(rows, LastOf(S))

\* C20, amended: the active set has at most one entry per title_key; of several
\* in-window catalog rows with one title_key exactly one title results, and it
\* is the first row's (later rows of the key are skipped); so the run writes at
\* most one x_daily row per (date, title_key).
C20_OneEntryPerKeyFirstRowKept ==
    cat_today # None =>
        /\ OneEntryOneXRowPerKey
        /\ LET rows == Get(download).rows
           IN  \A j \in 1..Len(rows) :
                  LET S == RowsOfKey(rows, Get(cat_today), RowKey(rows[j]))
                  IN  S # {} => EntryFrom(rows, FirstOf(S))

\* C20, witness: a catalog of two rows with one title_key and two trailers gave
\* one title, the first row's, and the run has written its one x_daily row.
C20_Witness ==
    /\ pc = "assemble"
    /\ cat_today # None
    /\ Len(Get(download).rows) = 2
    /\ RowKey(Get(download).rows[1]) = RowKey(Get(download).rows[2])
    /\ Get(download).rows[1].trailer_url # Get(download).rows[2].trailer_url
    /\ Len(movies) = 1
    /\ movies[1].trailer_url = Get(download).rows[1].trailer_url
    /\ Cardinality(DOMAIN x_daily) = 1

\* One character with its case and its diacritic folded.
FoldChar(c) ==
    CASE c \in { "A", "A_acute", "a_acute" } -> "a"
      [] c = "B" -> "b"
      [] OTHER -> c

IsAlnum(c) == c \in { "a", "b", "1" }

\* The lowercase form of a display title with diacritics folded and
\* non-alphanumeric characters stripped.
RECURSIVE Folded(_)
Folded(s) ==
    IF s = << >> THEN << >>
    ELSE IF IsAlnum(FoldChar(Head(s)))
         THEN << FoldChar(Head(s)) >> \o Folded(Tail(s))
         ELSE Folded(Tail(s))

\* C21 as stated: the title_key of an entry is the lowercase form of its
\* display title with diacritics folded and non-alphanumerics stripped, and two
\* catalog rows whose titles differ only in case, accents, punctuation or
\* spacing get one title_key, hence one entry of the active set.
C21_KeyIsFoldedTitle ==
    (pc = "load_incaa" /\ download # None) =>
        LET rows == Get(download).rows
        IN  /\ \A j \in 1..Len(movies) : movies[j].title_key = Folded(movies[j].title)
            /\ \A a, b \in 1..Len(rows) :
                  Folded(rows[a].title) = Folded(rows[b].title) =>
                      /\ norm_title_key(rows[a].title) = norm_title_key(rows[b].title)
                      /\ \A j, h \in 1..Len(movies) :
                            (movies[j].title = strip(rows[a].title)
                               /\ movies[h].title = strip(rows[b].title)) => j = h

\* cols begins with the columns of old, in their order.
ColumnsKept(old, cols) ==
    Len(old) <= Len(cols) /\ \A j \in 1..Len(old) : cols[j] = old[j]

\* Every row of before is in after with its values in the columns of cols, as
\* many times, and after has no other row.
RowsKept(before, after, cols) ==
    LET Old(r) == [c \in ColumnSet(cols) |-> r[c]]
    IN  /\ \A r \in DOMAIN after :
              /\ ColumnSet(cols) \subseteq DOMAIN r
              /\ Old(r) \in DOMAIN before
              /\ before[Old(r)] = after[r]
        /\ \A o \in DOMAIN before : \E r \in DOMAIN after : Old(r) = o
        /\ Cardinality(DOMAIN after) = Cardinality(DOMAIN before)

\* C22: a step of ensure_table_trailer_daily or ensure_table_x_daily only
\* creates a missing table or adds missing columns: a table that was there keeps
\* its columns, in place, and its rows with their values; a column added is a
\* needed one; and when the function has run every needed column is there.
C22_EnsureOnlyAdds ==
    [][ /\ schema.trailer_daily # None =>
             /\ ColumnsKept(Get(schema.trailer_daily), Get(schema'.trailer_daily))
             /\ RowsKept(trailer_daily, trailer_daily', Get(schema.trailer_daily))
             /\ ColumnSet(Get(schema'.trailer_daily)) \subseteq
                   ColumnSet(Get(schema.trailer_daily)) \cup ColumnSet(TrailerNeeded)
        /\ schema.x_daily # None =>
             /\ ColumnsKept(Get(schema.x_daily), Get(schema'.x_daily))
             /\ RowsKept(x_daily, x_daily', Get(schema.x_daily))
             /\ ColumnSet(Get(schema'.x_daily)) \subseteq
                   ColumnSet(Get(schema.x_daily)) \cup ColumnSet(XNeeded)
        /\ (pc = "import" /\ pc' = "ensure_x") =>
             /\ ColumnSet(TrailerNeeded) \subseteq ColumnSet(Get(schema'.trailer_daily))
             /\ \A r \in DOMAIN trailer_daily' :
                   DOMAIN r = ColumnSet(Get(schema'.trailer_daily))
        /\ (pc = "ensure_x" /\ pc' = "imported") =>
             /\ ColumnSet(XNeeded) \subseteq ColumnSet(Get(schema'.x_daily))
             /\ \A r \in DOMAIN x_daily' : DOMAIN r = ColumnSet(Get(schema'.x_daily))
      ]_vars

\* C22, witness: a trailer_daily without err and with a column note, holding
\* two rows, has got err, NULL in both rows, and kept note and the rows' values;
\* a file without x_daily has got the table with its needed columns.
C22_Witness ==
    /\ pc = "imported"
    /\ Get(schema.trailer_daily) =
          << "date", "title_key", "trailer_url", "platform", "views", "likes",
             "comments", "note", "err" >>
    /\ Cardinality(DOMAIN trailer_daily) = 2
    /\ \A r \in DOMAIN trailer_daily : r.note = Some("kept") /\ r.err = None
    /\ \E r \in DOMAIN trailer_daily : r.views = Some(100) /\ r.title_key = TitleA
    /\ schema.x_daily = Some(XNeeded)
    /\ x_daily = EmptyBag

\* The loop has finished the body of a title: movies[i - 1].
BodyDone == pc \in { "trailer", "assemble" } /\ i >= 2 /\ ref.trailer # None /\ ref.x # None

\* The rows of the title the loop has just finished, of the date each lookup
\* asked for: under its trailer URL, under another URL, and in x_daily.
SameUrlRows ==
    { r \in DOMAIN trailer_daily :
        /\ r.date = Get(ref.trailer)
        /\ r.title_key = movies[i - 1].title_key
        /\ r.trailer_url = movies[i - 1].trailer_url }
OtherUrlRows ==
    { r \in DOMAIN trailer_daily :
        /\ r.date = Get(ref.trailer)
        /\ r.title_key = movies[i - 1].title_key
        /\ r.trailer_url # movies[i - 1].trailer_url }
PreviousXRows ==
    { r \in DOMAIN x_daily : r.date = Get(ref.x) /\ r.title_key = movies[i - 1].title_key }

\* The delta of one metric against the row r, as main.py:987-992 and 1001-1004.
DeltaAgainst(now, r, f) ==
    IF now # None /\ r[f] # None THEN Some(Get(now) - Get(r[f])) ELSE None

\* C23: the three trailer deltas of a title are taken against the previous-day
\* row stored under the title's trailer URL of this run and no other: without
\* such a row all three are absent, whatever rows the title_key has under other
\* URLs, and the X deltas are taken against the previous-day x_daily row all
\* the same.
C23_TrailerDeltaNeedsSameUrl ==
    BodyDone =>
        /\ SameUrlRows = {} =>
              change.views = None /\ change.likes = None /\ change.comments = None
        /\ SameUrlRows # {} =>
              \E r \in SameUrlRows :
                 /\ change.views = DeltaAgainst(stats.views, r, "views")
                 /\ change.likes = DeltaAgainst(stats.likes, r, "likes")
                 /\ change.comments = DeltaAgainst(stats.comments, r, "comments")
        /\ PreviousXRows # {} =>
              \E r \in PreviousXRows :
                 /\ change.x_posts = DeltaAgainst(xm.posts_7d, r, "posts_7d")
                 /\ change.x_eng = DeltaAgainst(xm.eng_7d, r, "eng_7d")

\* C23, witness: the title has a previous-day row with likes under another
\* URL and none under this run's URL; likes were fetched, the three trailer
\* deltas are absent, and the X posts delta is there.
C23_Witness ==
    /\ BodyDone
    /\ SameUrlRows = {}
    /\ \E r \in OtherUrlRows : r.likes # None
    /\ stats.likes # None
    /\ change.views = None /\ change.likes = None /\ change.comments = None
    /\ change.x_posts # None

\* s is the beginning of t.
IsPrefix(s, t) == Len(s) <= Len(t) /\ \A j \in 1..Len(s) : s[j] = t[j]

\* C24: the pages are published in the order index.html, proximos.html,
\* estrenadas.html; the e-mail is sent only when the three have been; and once a
\* publish call (or any step) has failed the run publishes no further page and
\* sends no e-mail.
C24_EmailAfterThreePagesInOrder ==
    [][ /\ IsPrefix(published', PageNames)
        /\ email_sent' => published' = PageNames
        /\ (email_sent' /\ ~email_sent) => published = PageNames
        /\ published' # published =>
              \/ pc = "publish" /\ published' = Append(published, PageNames[Len(published) + 1])
              \/ pc' = "idle" /\ published' = << >>
        /\ pc = "raised" =>
              (published' \in { published, << >> } /\ ~email_sent' /\ pc' \in { pc, "idle" })
        /\ (pc = "publish" /\ pc' = "raised") => (published' = published /\ ~email_sent')
      ]_vars

\* C24, witness: the e-mail has been sent, after the three pages.
C24_Witness == pc = "returned" /\ email_sent /\ published = PageNames

\* A publish call of the run, or its e-mail, has failed after the second page.
PublishFailedAfterTwoPages ==
    pc = "raised" /\ published = << "index.html", "proximos.html" >> /\ ~email_sent

\* C25: what a run has committed stays: the steps from the first publish call
\* on, failed or not, and the end of the process leave both tables as they are,
\* and the connection is closed when main() has returned and when it has raised.
C25_FailureKeepsRowsAndClosesConn ==
    [][ /\ pc \in { "publish", "email", "returned", "raised" } =>
              (trailer_daily' = trailer_daily /\ x_daily' = x_daily)
        /\ (pc \in { "returned", "raised" } /\ pc' # pc) => conn' = "closed"
        /\ (pc' = "idle" /\ pc # "idle") => conn' = "closed"
        /\ pc' \in { "publish", "email", "returned", "raised" } => conn' = "open"
      ]_vars

\* C25, witness: the third page was refused after the run had stored a trailer
\* row with views and an X row, and the process has ended: the rows are there
\* and the connection is closed.
C25_Witness ==
    /\ pc = "idle"
    /\ runs = 1
    /\ conn = "closed"
    /\ \E r \in DOMAIN trailer_daily : r.views # None
    /\ x_daily # EmptyBag
    /\ ~email_sent

\* C26 as stated: upsert_file issues its PUT only after the sha lookup
\* answered 200 (the PUT carries the sha of the file) or 404 (the PUT carries no
\* sha); after any other lookup status it raises and issues no PUT; and a PUT
\* answered otherwise than 200 or 201 makes it raise.
C26_PutOnlyAfter200Or404 ==
    gh.lookup # None =>
        /\ gh.put # None => Get(gh.lookup).status \in { 200, 404 }
        /\ (gh.put # None /\ Get(gh.lookup).status = 200 /\ Get(gh.lookup).body = "file") =>
              Get(gh.put).sha = Some("sha1")
        /\ (gh.put # None /\ Get(gh.lookup).status = 404) => Get(gh.put).sha = None
        /\ Get(gh.lookup).status \notin { 200, 404 } => (gh.raised /\ gh.put = None)
        /\ (gh.put # None /\ Get(gh.put).status \notin { 200, 201 }) => gh.raised

\* The answer holds an element that gives an item: an object with a title.
YieldsItem(ans) ==
    /\ ans.kind = "list"
    /\ \E j \in 1..Len(ans.elements) :
          /\ ans.elements[j].dict
          /\ ans.elements[j].title # None
          /\ Get(ans.elements[j].title) # << >>

\* C27: fetch_ultracine_top does not raise; it returns a non-empty list with
\* error None, the items of the first endpoint in order that yields an item, one
\* per titled element of that endpoint, or an empty list with an error message;
\* and it queries the second endpoint only when the first yielded no item.
C27_UltracineItemsOrError ==
    ultra.queried > 0 =>
        /\ ~ultra.raised
        /\ pc # "load_incaa"
        /\ \/ /\ ultra.items # << >>
              /\ ultra.err = None
              /\ YieldsItem(ultra.answers[ultra.queried])
              /\ \A j \in 1..(ultra.queried - 1) : ~YieldsItem(ultra.answers[j])
              /\ \A j \in 1..Len(ultra.items) : ultra.items[j].source_url = ultra.queried
              /\ Len(ultra.items) =
                    Cardinality({ j \in 1..Len(ultra.answers[ultra.queried].elements) :
                                    LET it == ultra.answers[ultra.queried].elements[j]
                                    IN  it.dict /\ it.title # None /\ Get(it.title) # << >> })
           \/ /\ ultra.items = << >>
              /\ ultra.err # None
              /\ Get(ultra.err).msg # ""
              /\ \A j \in 1..Len(ultra.answers) : ~YieldsItem(ultra.answers[j])
        /\ ultra.queried = 2 <=> ~YieldsItem(ultra.answers[1])

\* C27, witness: the first endpoint raised, the second sent a list with a
\* titled and an untitled element, and main() has the one item and no error.
C27_Witness ==
    /\ pc = "today"
    /\ ultra.queried = 2
    /\ ultra.answers[1].kind = "raise"
    /\ Len(ultra.answers[2].elements) = 2
    /\ Len(ultra.items) = 1
    /\ ultra.items[1].title = TitleA
    /\ ultra.items[1].source_url = 2
    /\ ultra.err = None

\* Both endpoints failed: an empty list and the message of the second.
UltracineBothFailed ==
    /\ pc = "today"
    /\ ultra.items = << >>
    /\ ultra.err = Some([url |-> 2, msg |-> "lista vacia tras normalizar"])

====
